---- MODULE Spec2Model ----
(***************************************************************************)
(* Model of the cross-organization collection methods of the portal        *)
(* (createMethods: generalizedCollectionMethod, getCrossOrganizationMethod, *)
(* crossOrganizationCollection) and of the cache execution context they    *)
(* resolve through.                                                         *)
(***************************************************************************)
EXTENDS Integers, Sequences, FiniteSets, TLC

\* ------------------------------------------------------------------------
\* Bounds
\* ------------------------------------------------------------------------
\* Largest number of entities one organization listing returns.
MaxEntities == 2
\* Number of concurrent callers of the cache execution context.
NumCallers == 2
\* Number of clock ticks the cache model lets pass, and their length.
MaxTicks == 2
TickSeconds == 100

\* ------------------------------------------------------------------------
\* JavaScript values. Every value is a sequence of integers whose head is a
\* type tag, so that values of different types can be compared.
\* ------------------------------------------------------------------------
Num(n) == <<0, n>>
Str(s) == <<1>> \o s
OrgObj(login) == <<2>> \o login
Payload(id) == <<3, id>>
Undefined == <<4>>
Bool(b) == <<5, IF b THEN 1 ELSE 0>>

Truthy(v) == /\ v # Undefined
             /\ v # Num(0)
             /\ v # Bool(FALSE)
             /\ v # Str(<<>>)

\* Objects are functions from property names to values.
EmptyObject == [k \in {} |-> Undefined]
Get(obj, k) == IF k \in DOMAIN obj THEN obj[k] ELSE Undefined
Has(obj, k) == k \in DOMAIN obj
Put(obj, k, v) == [p \in DOMAIN obj \cup {k} |-> IF p = k THEN v ELSE obj[p]]
Delete(obj, k) == [p \in DOMAIN obj \ {k} |-> obj[p]]
\* Object.assign(target, source): the source's properties win.
ObjectAssign(target, source) ==
  [p \in DOMAIN target \cup DOMAIN source |->
      IF p \in DOMAIN source THEN source[p] ELSE target[p]]

\* String.prototype.toLowerCase on sequences of ASCII codes.
toLowerCase(s) ==
  [i \in 1..Len(s) |-> IF s[i] >= 65 /\ s[i] <= 90 THEN s[i] + 32 ELSE s[i]]

\* ------------------------------------------------------------------------
\* Inputs of the collection methods
\* ------------------------------------------------------------------------
\* Organization logins, as ASCII codes: "alpha", "beta", "Contoso", "contoso".
alpha == <<97, 108, 112, 104, 97>>
beta == <<98, 101, 116, 97>>
Contoso == <<67, 111, 110, 116, 111, 115, 111>>
contoso == <<99, 111, 110, 116, 111, 115, 111>>

\* The token registered for a login, and the value of a failed lookup.
TokenOf(login) == <<116>> \o login
NoToken == <<>>

\* An orgsAndTokens object: its keys in insertion order with their tokens.
TokenSet(logins) ==
  [i \in 1..Len(logins) |-> [login |-> logins[i], token |-> TokenOf(logins[i])]]

TokenSets ==
  { TokenSet(<<>>), TokenSet(<<alpha, beta>>), TokenSet(<<Contoso>>),
    TokenSet(<<contoso, alpha>>), TokenSet(<<alpha, Contoso>>),
    TokenSet(<<Contoso, contoso>>) }

\* orgsAndTokens[key]: the token stored under exactly this key.
TokenLookup(tokens, key) ==
  IF \E i \in 1..Len(tokens) : tokens[i].login = key
  THEN tokens[CHOOSE i \in 1..Len(tokens) : tokens[i].login = key].token
  ELSE NoToken

\* The jobs: the public methods of createMethods (orgMembers, teams,
\* teamMembers, repos, repoCollaborators, repoTeams), and two further
\* parameterizations of crossOrganizationCollection.
TeamsJob ==
  [apiName |-> "teams", nested |-> FALSE, innerKeyType |-> "none",
   collectionMethodName |-> "none", collectionKey |-> "none",
   optionalSetOrganizationLogin |-> FALSE]

Jobs ==
  { TeamsJob,
    [apiName |-> "orgMembers", nested |-> FALSE, innerKeyType |-> "none",
     collectionMethodName |-> "none", collectionKey |-> "none",
     optionalSetOrganizationLogin |-> FALSE],
    [apiName |-> "repos", nested |-> FALSE, innerKeyType |-> "none",
     collectionMethodName |-> "none", collectionKey |-> "none",
     optionalSetOrganizationLogin |-> FALSE],
    [apiName |-> "repoTeams", nested |-> TRUE, innerKeyType |-> "repo",
     collectionMethodName |-> "getRepoTeams", collectionKey |-> "teams",
     optionalSetOrganizationLogin |-> TRUE],
    [apiName |-> "teamMembers", nested |-> TRUE, innerKeyType |-> "team",
     collectionMethodName |-> "getTeamMembers", collectionKey |-> "members",
     optionalSetOrganizationLogin |-> TRUE],
    [apiName |-> "repoCollaborators", nested |-> TRUE, innerKeyType |-> "repo",
     collectionMethodName |-> "getRepoCollaborators",
     collectionKey |-> "collaborators",
     optionalSetOrganizationLogin |-> TRUE],
    [apiName |-> "teamMembersPlain", nested |-> TRUE, innerKeyType |-> "team",
     collectionMethodName |-> "getTeamMembers", collectionKey |-> "members",
     optionalSetOrganizationLogin |-> FALSE],
    [apiName |-> "userKeys", nested |-> TRUE, innerKeyType |-> "user",
     collectionMethodName |-> "getUserKeys", collectionKey |-> "keys",
     optionalSetOrganizationLogin |-> TRUE] }

\* The caller's options template together with its cache policy.
CallerInputs ==
  { [options |-> EmptyObject, cacheOptions |-> EmptyObject],
    [options |-> [per_page |-> Num(50), maxAgeSeconds |-> Num(5),
                  backgroundRefresh |-> Bool(TRUE)],
     cacheOptions |-> [maxAgeSeconds |-> Num(600),
                       individualMaxAgeSeconds |-> Num(60),
                       backgroundRefresh |-> Bool(TRUE)]],
    [options |-> [team_id |-> Num(999), owner |-> Str(alpha),
                  repo |-> Str(<<120>>), org |-> Str(beta)],
     cacheOptions |-> [maxAgeSeconds |-> Num(-60),
                       backgroundRefresh |-> Bool(FALSE)]],
    [options |-> [per_page |-> Num(0)],
     cacheOptions |-> [maxAgeSeconds |-> Num(600),
                       individualMaxAgeSeconds |-> Num(0)]] }

\* ------------------------------------------------------------------------
\* Upstream payloads
\* ------------------------------------------------------------------------
LoginIndex(login) ==
  IF login = alpha THEN 1 ELSE IF login = beta THEN 2
  ELSE IF login = Contoso THEN 3 ELSE 4

\* The k-th entity of an organization's listing. The second entity of a
\* listing carries an organization field of its own.
Entity(login, k) ==
  LET base == [id |-> Num(10 * LoginIndex(login) + k), name |-> Str(<<114, 48 + k>>)]
  IN  IF k = 2 THEN Put(base, "organization", OrgObj(<<117, 112>>)) ELSE base

EntityList(login, n) == [k \in 1..n |-> Entity(login, k)]

\* The inner collection an inner call returns for an entity.
InnerPayload(entity) == Payload(entity["id"][2])

\* ------------------------------------------------------------------------
\* Errors
\* ------------------------------------------------------------------------
NoError == [kind |-> "none", org |-> <<>>]
UpstreamError(org) == [kind |-> "upstream", org |-> org]
InnerUpstreamError(org) == [kind |-> "innerUpstream", org |-> org]
NoResultError == [kind |-> "noResult", org |-> <<>>]
NoDataPropertyError == [kind |-> "noDataProperty", org |-> <<>>]
MissingTokenError(org) == [kind |-> "noToken", org |-> org]
InnerDataSetError == [kind |-> "innerDataSet", org |-> <<>>]
UnsupportedKeyTypeError == [kind |-> "unsupportedKeyType", org |-> <<>>]
TypeError == [kind |-> "typeError", org |-> <<>>]

\* ------------------------------------------------------------------------
\* State
\* ------------------------------------------------------------------------
VARIABLES
  job,            \* the method invoked and its crossOrganizationCollection parameters
  orgsAndTokens,  \* the caller's orgsAndTokens object
  options,        \* the caller's options object
  cacheOptions,   \* the caller's cacheOptions object
  pc,             \* position of the invocation
  orgIdx,         \* position of async.eachOfLimit in orgsAndTokens
  values,         \* values.orgs of actualCrossOrgMethod, in insertion order
  fanOut,         \* the deferred of actualCrossOrgMethod
  listingCalls,   \* the per-organization listing calls issued so far
  listingResults, \* what each finished listing call called back with
  cursor,         \* position of the nested async.eachLimit loops
  entities,       \* the entities array of crossOrganizationCollection
  innerCalls,     \* the per-entity inner calls issued so far
  processed,      \* the entities whose iteratee has finished, with the outcome
  pipeline,       \* the deferred of crossOrganizationCollection
  thrown,         \* the exception that escaped a callback, if any
  cb,             \* the invocations of the caller's callback
  topCalls,       \* the aggregated calls made through generalizedCollectionMethod
  outerResult,    \* what the outer function's callback received
  listingPayloads, \* what the listing calls called back with
  topPath         \* the branch execute took for the aggregated call

aggVars == <<job, orgsAndTokens, options, cacheOptions, pc, orgIdx, values,
             fanOut, listingCalls, listingResults, cursor, entities,
             innerCalls, processed, pipeline, thrown, cb, topCalls,
             outerResult, listingPayloads, topPath>>

VARIABLES
  clock,          \* the time, in seconds
  store,          \* the cache-aside store's entry for the key
  inflight,       \* the outstanding fetch for the key
  fetches,        \* the fetch-backend invocations started so far
  completed,      \* the fetches that have completed, in order
  calls           \* the execute calls of each caller

cacheVars == <<clock, store, inflight, fetches, completed, calls>>

VARIABLES
  contexts,       \* the arguments of two generalizedCollectionMethod calls
  resolutions     \* the cache key and fetch token each call resolved to

keyVars == <<contexts, resolutions>>

VARIABLES
  req,                 \* the contexts the request carries
  individualContexts,  \* the IndividualContext objects constructed so far
  nextArgs,            \* what each middleware passed to next, in order
  assignments,         \* the number of assignments to set-once properties
  lastAssignment,      \* the latest assignment and whether it threw
  adminCalls,          \* the number of isPortalAdministrator calls so far
  adminChecks          \* the contexts whose administrator check is awaited

reqVars == <<req, individualContexts, nextArgs, assignments, lastAssignment,
             adminCalls, adminChecks>>

VARIABLES
  session,        \* the session of the request, with its alerts
  saveCalls,      \* the number of saveUserAlert calls so far
  saved,          \* the alerts saveUserAlert stored, in order
  renders         \* the render calls so far, in order

webVars == <<session, saveCalls, saved, renders>>

VARIABLES
  repo,           \* the repository a POST /:repoName request is about
  post,           \* the POST /:repoName request being handled
  posts           \* the number of POST /:repoName requests so far

routeVars == <<repo, post, posts>>

VARIABLES
  run,            \* the position and working data of permissionsRun
  visited         \* the repositories permissionsRun has reached, in order

jobVars == <<run, visited>>

\* The variables of the parts that follow the collections.
laterVars == <<reqVars, webVars, routeVars, jobVars>>

vars == <<aggVars, cacheVars, keyVars, laterVars>>

\* The variables outside each part of the model.
outsideAgg == <<cacheVars, keyVars, laterVars>>
outsideCache == <<aggVars, keyVars, laterVars>>
outsideKey == <<aggVars, cacheVars, laterVars>>
outsideReq == <<aggVars, cacheVars, keyVars, webVars, routeVars, jobVars>>
outsideWeb == <<aggVars, cacheVars, keyVars, reqVars, routeVars, jobVars>>
outsideRoute == <<aggVars, cacheVars, keyVars, reqVars, jobVars>>
outsideJob == <<aggVars, cacheVars, keyVars, reqVars, webVars, routeVars>>

Pending == [state |-> "pending", error |-> NoError, data |-> <<>>]
Resolved(data) == [state |-> "resolved", error |-> NoError, data |-> data]
Rejected(error) == [state |-> "rejected", error |-> error, data |-> <<>>]

NoCallback == [count |-> 0, error |-> NoError, hasResult |-> FALSE, result |-> <<>>]

\* ------------------------------------------------------------------------
\* getCrossOrganizationMethod / actualCrossOrgMethod
\* ------------------------------------------------------------------------
ApiTypePrefix == Str(<<103, 105, 116, 104, 117, 98, 46, 120, 35>>)

\* The options the fan-out receives: the nested pipeline calls its outer
\* function with a fresh object, a fan-out method with the caller's object;
\* getAllTeams/getAllRepos set apiTypePrefix on it.
FanOutOptions ==
  IF job.nested THEN Put(EmptyObject, "apiTypePrefix", ApiTypePrefix)
  ELSE Put(options, "apiTypePrefix", ApiTypePrefix)

\* localOptions of one listing call.
ListingLocalOptions(template, orgName) ==
  LET withOrg == Put(ObjectAssign(EmptyObject, template), "org", Str(orgName))
  IN  IF ~Truthy(Get(withOrg, "per_page"))
      THEN Put(withOrg, "per_page", Num(100))
      ELSE withOrg

\* Variant: org and per_page are set on the template itself.
TemplateAfterIteratee_InPlace(template, orgName) ==
  LET withOrg == Put(template, "org", Str(orgName))
  IN  IF ~Truthy(Get(withOrg, "per_page"))
      THEN Put(withOrg, "per_page", Num(100))
      ELSE withOrg

\* The template after the iteratee built a call's localOptions from it:
\* Object.assign({}, options) copies it, so the assignments reach the copy.
TemplateAfterIteratee(template, orgName) == template

\* The caller's options after the listing call for orgName was built: a
\* fan-out method's template is the caller's object, the nested pipeline's
\* outer function gets an object of its own.
CallerOptionsAfterListing(opts, orgName) ==
  IF job.nested THEN opts ELSE TemplateAfterIteratee(opts, orgName)

\* localCacheOptions of the calls issued during fan-out.
LocalCacheOptions(co) ==
  LET copy == ObjectAssign(EmptyObject, co)
  IN  IF Truthy(Get(copy, "individualMaxAgeSeconds"))
      THEN Put(copy, "maxAgeSeconds", copy["individualMaxAgeSeconds"])
      ELSE copy

\* The listing call the iteratee of eachOfLimit issues for the i-th key.
ListingCall(i) ==
  [org |-> orgsAndTokens[i].login,
   token |-> orgsAndTokens[i].token,
   options |-> ListingLocalOptions(FanOutOptions, orgsAndTokens[i].login),
   cacheOptions |-> LocalCacheOptions(cacheOptions)]

\* What a listing call can call back with: an error, no result, an object
\* with a data property, or the bare list.
ListingOutcomes == {"error", "noResult", "data", "bare"}

\* Variant: the listing callback drops the organization's error.
ListingNextError_Swallowed(outcome, orgName) ==
  IF outcome = "noResult" THEN NoResultError ELSE NoError

\* The argument the listing callback passes to next.
ListingNextError(outcome, orgName) ==
  IF outcome = "error" THEN UpstreamError(orgName)
  ELSE IF outcome = "noResult" THEN NoResultError
  ELSE NoError

\* The result a listing call calls back with: an object with a data
\* property holding the list, the bare list, or nothing.
NoListingResult == [hasData |-> FALSE, data |-> <<>>, items |-> <<>>]
ListingResult(outcome, orgName, n) ==
  IF outcome = "data"
  THEN [hasData |-> TRUE, data |-> EntityList(orgName, n), items |-> <<>>]
  ELSE IF outcome = "bare"
  THEN [hasData |-> FALSE, data |-> <<>>, items |-> EntityList(orgName, n)]
  ELSE NoListingResult

\* Variant: the result object itself is stored, also when it has data.
OrgValue_Parent(orgValues) == orgValues.items

\* What the listing callback stores for the organization: orgValues.data
\* when the result has one, else orgValues.
OrgValue(orgValues) ==
  IF orgValues.hasData THEN orgValues.data ELSE orgValues.items

\* The object the fan-out resolves with has the headers of values, set to
\* {} when values is created.
ValuesHeaders == EmptyObject

\* Variant: the organization's key is lower-cased.
SetOrg_LowerCaseKey(orgs, orgName, list) ==
  IF \E i \in 1..Len(orgs) : orgs[i].login = toLowerCase(orgName)
  THEN [i \in 1..Len(orgs) |->
          IF orgs[i].login = toLowerCase(orgName)
          THEN [login |-> toLowerCase(orgName), entities |-> list] ELSE orgs[i]]
  ELSE Append(orgs, [login |-> toLowerCase(orgName), entities |-> list])

\* values.orgs[orgName] = list
SetOrg(orgs, orgName, list) ==
  IF \E i \in 1..Len(orgs) : orgs[i].login = orgName
  THEN [i \in 1..Len(orgs) |->
          IF orgs[i].login = orgName
          THEN [login |-> orgName, entities |-> list] ELSE orgs[i]]
  ELSE Append(orgs, [login |-> orgName, entities |-> list])

\* The final callback of eachOfLimit.
FanOutFinal(error, orgs) ==
  IF error # NoError THEN Rejected(error)
  ELSE [state |-> "resolved", error |-> NoError, data |-> orgs,
        headers |-> ValuesHeaders]

\* ------------------------------------------------------------------------
\* generalizedCollectionMethod: execute(apiContext).then(ok => callback(null,
\* ok), callback). In this specification the top-level entry is not in the
\* cache, so execute settles as the method it wraps settles.
\* ------------------------------------------------------------------------
CallbackDelivery(promise) ==
  IF promise.state = "resolved"
  THEN [error |-> NoError, hasResult |-> TRUE, result |-> promise.data]
  ELSE [error |-> promise.error, hasResult |-> FALSE, result |-> <<>>]

Deliver(promise) ==
  LET d == CallbackDelivery(promise)
  IN  [count |-> cb.count + 1, error |-> d.error,
       hasResult |-> d.hasResult, result |-> d.result]

\* ------------------------------------------------------------------------
\* crossOrganizationCollection
\* ------------------------------------------------------------------------
\* What the outer function's callback can receive when the outer function
\* reports no error: a result with a data property, a result without one,
\* or no result at all.
OuterShapes == {"withData", "withoutData", "noResult"}

\* Variant: the outer function's result is not checked for its data property.
OuterError_NoDataCheck(error, shape) == error

\* outerError after the checks on the outer function's result.
OuterError(error, shape) ==
  IF error = NoError /\ shape = "withoutData" THEN NoDataPropertyError
  ELSE error

\* Variant: the organization stamp is assigned over the entity's fields.
EntityClone_StampWins(orgName, orgEntity) ==
  LET cloneTarget == IF job.optionalSetOrganizationLogin
                     THEN Put(EmptyObject, "organization", OrgObj(orgName))
                     ELSE EmptyObject
  IN  ObjectAssign(orgEntity, cloneTarget)

\* The clone of an outer entity.
EntityClone(orgName, orgEntity) ==
  LET cloneTarget == IF job.optionalSetOrganizationLogin
                     THEN Put(EmptyObject, "organization", OrgObj(orgName))
                     ELSE EmptyObject
  IN  ObjectAssign(cloneTarget, orgEntity)

\* Variant: maxAgeSeconds and backgroundRefresh are not deleted.
InnerLocalOptions_KeepPolicy(orgName, orgEntity) ==
  LET perPage == Put(EmptyObject, "per_page", Num(100))
      localOptionsTarget ==
        IF job.innerKeyType = "team"
        THEN Put(perPage, "team_id", Get(orgEntity, "id"))
        ELSE Put(Put(perPage, "owner", Str(orgName)), "repo", Get(orgEntity, "name"))
  IN  ObjectAssign(localOptionsTarget, options)

\* localOptions of one inner call; the key type is 'team' or 'repo'.
InnerLocalOptions(orgName, orgEntity) ==
  LET perPage == Put(EmptyObject, "per_page", Num(100))
      localOptionsTarget ==
        IF job.innerKeyType = "team"
        THEN Put(perPage, "team_id", Get(orgEntity, "id"))
        ELSE Put(Put(perPage, "owner", Str(orgName)), "repo", Get(orgEntity, "name"))
      localOptions == ObjectAssign(localOptionsTarget, options)
  IN  Delete(Delete(localOptions, "maxAgeSeconds"), "backgroundRefresh")

\* The token the iteratee resolves for an organization.
InnerToken(orgName) == TokenLookup(orgsAndTokens, toLowerCase(orgName))

\* Variant: a missing token ends the iteratee without an error.
Iteratee_SkipMissingToken(orgName, orgEntity) ==
  IF job.innerKeyType \notin {"team", "repo"}
  THEN [kind |-> "throw", error |-> UnsupportedKeyTypeError]
  ELSE IF InnerToken(orgName) = NoToken
  THEN [kind |-> "next", error |-> NoError]
  ELSE [kind |-> "call", error |-> NoError]

\* The synchronous part of the entity iteratee: it throws, passes an error
\* to next, or issues the inner call.
Iteratee(orgName, orgEntity) ==
  IF job.innerKeyType \notin {"team", "repo"}
  THEN [kind |-> "throw", error |-> UnsupportedKeyTypeError]
  ELSE IF InnerToken(orgName) = NoToken
  THEN [kind |-> "next", error |-> MissingTokenError(orgName)]
  ELSE [kind |-> "call", error |-> NoError]

InnerCall(orgName, orgEntity) ==
  [org |-> orgName,
   entity |-> orgEntity,
   method |-> job.collectionMethodName,
   token |-> InnerToken(orgName),
   options |-> InnerLocalOptions(orgName, orgEntity),
   cacheOptions |-> LocalCacheOptions(cacheOptions)]

\* What an inner call can call back with: an error, a result with a data
\* property, the bare collection, or no result.
InnerOutcomes == {"error", "data", "bare", "noResult"}

\* Variant: an inner result with a data property is accepted.
CollectionsError_DataAccepted(outcome, orgName) ==
  IF outcome = "error" THEN InnerUpstreamError(orgName) ELSE NoError

\* Variant: the inner callback does not look at the call's error.
CollectionsError_Ignored(outcome, orgName) ==
  IF outcome = "data" THEN InnerDataSetError ELSE NoError

\* collectionsError after the check on the inner result.
CollectionsError(outcome, orgName) ==
  IF outcome = "error" THEN InnerUpstreamError(orgName)
  ELSE IF outcome = "data" THEN InnerDataSetError
  ELSE NoError

\* innerEntities of a call that reported no error.
InnerEntities(outcome, orgEntity) ==
  IF outcome = "bare" THEN InnerPayload(orgEntity) ELSE Undefined

\* Variant: the clone is put in front of the array (unshift).
EntitiesAfterInner_Prepend(ents, outcome, orgName, orgEntity) ==
  IF CollectionsError(outcome, orgName) # NoError
  THEN ents
  ELSE <<Put(EntityClone(orgName, orgEntity), job.collectionKey,
             InnerEntities(outcome, orgEntity))>> \o ents

\* The entities array after the inner callback.
EntitiesAfterInner(ents, outcome, orgName, orgEntity) ==
  IF CollectionsError(outcome, orgName) # NoError
  THEN ents
  ELSE Append(ents, Put(EntityClone(orgName, orgEntity), job.collectionKey,
                        InnerEntities(outcome, orgEntity)))

\* Variant: the collection is attached to the outer entity itself.
OuterEntityAfterInner_InPlace(orgEntity, outcome, orgName) ==
  IF CollectionsError(outcome, orgName) # NoError
  THEN orgEntity
  ELSE Put(orgEntity, job.collectionKey, InnerEntities(outcome, orgEntity))

\* The outer entity after the inner callback: the organization stamp and
\* the collection are assigned to entityClone, Object.assign's target.
OuterEntityAfterInner(orgEntity, outcome, orgName) == orgEntity

\* The outer function's result after the inner callback for entity e of
\* organization o.
OuterDataAfterInner(orgs, o, e, outcome) ==
  [orgs EXCEPT ![o].entities[e] =
     OuterEntityAfterInner(orgs[o].entities[e], outcome, orgs[o].login)]

\* Variant: the final callback resolves whatever the error.
PipelineFinal_AlwaysResolve(error, ents) == Resolved(ents)

\* The final callback of the outer eachLimit.
PipelineFinal(error, ents) ==
  IF error # NoError THEN Rejected(error) ELSE Resolved(ents)

\* The next position of the nested loops at or after (o, e): organizations
\* without entities are passed over; o beyond the last organization means
\* both loops are finished.
RECURSIVE NextPosition(_, _, _)
NextPosition(orgs, o, e) ==
  IF o > Len(orgs) THEN [o |-> o, e |-> 1]
  ELSE IF e > Len(orgs[o].entities) THEN NextPosition(orgs, o + 1, 1)
  ELSE [o |-> o, e |-> e]

\* Runs the nested loops from position (o, e) until the next inner call is
\* outstanding, an error is passed to next, an exception is thrown, or the
\* loops are finished.
RunLoops(orgs, o, e, ents, log) ==
  LET pos == NextPosition(orgs, o, e)
  IN  IF pos.o > Len(orgs)
      THEN /\ pipeline' = PipelineFinal(NoError, ents)
           /\ pc' = "pipelineSettled"
           /\ cursor' = pos
           /\ processed' = log
           /\ UNCHANGED <<innerCalls, thrown>>
      ELSE LET orgName == orgs[pos.o].login
               orgEntity == orgs[pos.o].entities[pos.e]
               step == Iteratee(orgName, orgEntity)
               entry == [org |-> orgName, entity |-> orgEntity, outcome |-> step.kind]
           IN  /\ cursor' = pos
               /\ CASE step.kind = "throw" ->
                         /\ thrown' = step.error
                         /\ pc' = "thrown"
                         /\ processed' = Append(log, entry)
                         /\ UNCHANGED <<pipeline, innerCalls>>
                    [] step.kind = "next" ->
                         /\ pipeline' = PipelineFinal(step.error, ents)
                         /\ pc' = "pipelineSettled"
                         /\ processed' = Append(log, entry)
                         /\ UNCHANGED <<innerCalls, thrown>>
                    [] OTHER ->
                         /\ innerCalls' = Append(innerCalls, InnerCall(orgName, orgEntity))
                         /\ pc' = "inner"
                         /\ processed' = log
                         /\ UNCHANGED <<pipeline, thrown>>

\* ------------------------------------------------------------------------
\* Actions of one invocation of a collection method
\* ------------------------------------------------------------------------
\* ------------------------------------------------------------------------
\* The policy of a context and the branch execute takes for it
\* ------------------------------------------------------------------------
\* The ages of the entry the store holds when the callers start.
InitialAges == {0, 500, 600, 700}
StartClock == CHOOSE a \in InitialAges : \A b \in InitialAges : b <= a

DefaultMaxAgeSeconds == 600

\* Variant: the caller's maxAgeSeconds is not copied to the context.
Descriptor_NoMaxAge(co) ==
  [maxAgeSeconds |-> 0,
   backgroundRefresh |-> Truthy(Get(co, "backgroundRefresh"))]

\* Variant: the caller's backgroundRefresh is not copied to the context.
Descriptor_NoBackgroundRefresh(co) ==
  [maxAgeSeconds |-> IF Truthy(Get(co, "maxAgeSeconds"))
                     THEN co["maxAgeSeconds"][2] ELSE DefaultMaxAgeSeconds,
   backgroundRefresh |-> FALSE]

\* Variant: backgroundRefresh is set on every context.
Descriptor_AlwaysBackground(co) ==
  [maxAgeSeconds |-> IF Truthy(Get(co, "maxAgeSeconds"))
                     THEN co["maxAgeSeconds"][2] ELSE DefaultMaxAgeSeconds,
   backgroundRefresh |-> TRUE]

\* The policy generalizedCollectionMethod sets on the CompositeApiContext.
Descriptor(co) ==
  [maxAgeSeconds |-> IF Truthy(Get(co, "maxAgeSeconds"))
                     THEN co["maxAgeSeconds"][2] ELSE DefaultMaxAgeSeconds,
   backgroundRefresh |-> Truthy(Get(co, "backgroundRefresh"))]

\* The age of the store's entry.
Age == clock - store.timestamp

\* The branch execute takes for a descriptor: a cache hit, the stale entry
\* with a detached refresh, or a synchronous fetch.
ExecutePath(desc) ==
  IF store.present /\ Age <= desc.maxAgeSeconds THEN "hit"
  ELSE IF store.present /\ desc.backgroundRefresh THEN "stale"
  ELSE "fetch"

\* The aggregated calls a method makes through generalizedCollectionMethod:
\* its own and, for a nested method, that of its outer function.
OuterApiName == IF job.innerKeyType = "repo" THEN "repos" ELSE "teams"

TopLevelCalls ==
  IF job.nested
  THEN << [apiName |-> job.apiName, cacheOptions |-> cacheOptions],
          [apiName |-> OuterApiName, cacheOptions |-> cacheOptions] >>
  ELSE << [apiName |-> job.apiName, cacheOptions |-> cacheOptions] >>

\* The limit of async.eachOfLimit over the organizations.
OuterLimit == 1

\* Variant: async.eachOf without a limit.
StartedListings_Unlimited(n) == n

\* The number of listing calls eachOfLimit issues before any calls back.
StartedListings(n) == IF n < OuterLimit THEN n ELSE OuterLimit

\* Variant: the method runs its thunk itself, whatever execute finds.
RunsThunk_Always(path) == TRUE

\* Whether the thunk of the aggregated call runs: it is handed to
\* generalizedCollectionMethod as the context's method, so execute calls it
\* only to fetch the entry.
RunsThunk(path) == path # "hit"

\* What the caller's callback receives when execute answers from the store.
CachedDelivery ==
  [count |-> cb.count + 1, error |-> NoError, hasResult |-> TRUE,
   result |-> <<Payload(store.value)>>]

\* execute starts the fetch of the aggregated entry unless it is a hit.
TopStart(path) ==
  /\ IF path = "hit"
     THEN UNCHANGED <<fetches, inflight>>
     ELSE /\ fetches' = fetches + 1
          /\ inflight' = [active |-> TRUE, id |-> fetches + 1,
                          background |-> path = "stale"]
  /\ UNCHANGED <<clock, store, completed, calls>>
  /\ UNCHANGED <<keyVars, laterVars>>

\* The fetch of the aggregated entry has settled: a result is stored with
\* the current time.
TopSettle(promise) ==
  /\ store' = IF promise.state = "resolved"
              THEN [present |-> TRUE, value |-> inflight.id, timestamp |-> clock]
              ELSE store
  /\ completed' = Append(completed,
                         [id |-> inflight.id, ok |-> promise.state = "resolved",
                          at |-> clock, background |-> inflight.background])
  /\ inflight' = [active |-> FALSE, id |-> 0, background |-> FALSE]
  /\ UNCHANGED <<clock, fetches, calls>>
  /\ UNCHANGED <<keyVars, laterVars>>

\* The callback of the caller after the fetch settled: the caller of a
\* fetch gets its outcome; a caller answered from the store was called
\* back already.
DeliverFetched(promise) == IF topPath = "fetch" THEN Deliver(promise) ELSE cb

\* The caller invokes the method: apiTypePrefix is set on the caller's
\* options and the thunk is handed to execute. Answered from the store, the
\* caller is called back in a later step, once the promise of execute has
\* resolved. When the thunk runs, eachOfLimit issues the first listing call
\* or, without organizations, calls its final callback.
Invoke ==
  /\ pc = "idle"
  /\ LET path == ExecutePath(Descriptor(cacheOptions))
         prefixed == Put(options, "apiTypePrefix", ApiTypePrefix)
     IN  /\ topPath' = path
         /\ TopStart(path)
         /\ cb' = cb
         /\ IF ~RunsThunk(path)
            THEN /\ options' = prefixed
                 /\ topCalls' = <<TopLevelCalls[1]>>
                 /\ pc' = "returned"
                 /\ UNCHANGED <<orgIdx, listingCalls, fanOut>>
            ELSE /\ topCalls' = TopLevelCalls
                 /\ IF Len(orgsAndTokens) = 0
                    THEN /\ options' = prefixed
                         /\ fanOut' = FanOutFinal(NoError, values)
                         /\ pc' = "fanOutSettled"
                         /\ UNCHANGED <<orgIdx, listingCalls>>
                    ELSE /\ options' = CallerOptionsAfterListing(
                                         prefixed, orgsAndTokens[1].login)
                         /\ orgIdx' = 1
                         /\ listingCalls' =
                              [i \in 1..StartedListings(Len(orgsAndTokens)) |->
                                 ListingCall(i)]
                         /\ pc' = "listing"
                         /\ UNCHANGED fanOut
  /\ UNCHANGED <<job, orgsAndTokens, cacheOptions, values, listingResults,
                 cursor, entities, innerCalls, processed, pipeline, thrown,
                 outerResult, listingPayloads>>

\* execute answered from the store and the reaction of its promise has not
\* run yet: it runs before the callback of any call the refresh issued.
CachedAnswerPending == topPath \in {"hit", "stale"} /\ cb.count = 0

\* The promise of an execute that answered from the store has resolved and
\* its reaction calls the caller's callback with the stored value; after a
\* hit nothing else is outstanding.
CachedCallback ==
  /\ CachedAnswerPending
  /\ cb' = CachedDelivery
  /\ pc' = IF topPath = "hit" THEN "done" ELSE pc
  /\ UNCHANGED <<job, orgsAndTokens, options, cacheOptions, orgIdx, values,
                 fanOut, listingCalls, listingResults, cursor, entities,
                 innerCalls, processed, pipeline, thrown, topCalls,
                 outerResult, listingPayloads, topPath>>
  /\ UNCHANGED outsideAgg

\* The callback of the outstanding listing call.
ListingCallback ==
  /\ pc = "listing"
  /\ ~CachedAnswerPending
  /\ \E outcome \in ListingOutcomes, n \in 0..MaxEntities :
       LET orgName == orgsAndTokens[orgIdx].login
           error == ListingNextError(outcome, orgName)
           orgValues == ListingResult(outcome, orgName, n)
           orgs == IF error = NoError
                   THEN SetOrg(values, orgName, OrgValue(orgValues))
                   ELSE values
       IN  /\ values' = orgs
           /\ listingResults' = Append(listingResults, outcome)
           /\ listingPayloads' = Append(listingPayloads,
                 IF error = NoError THEN orgValues ELSE NoListingResult)
           /\ IF error = NoError /\ orgIdx < Len(orgsAndTokens)
              THEN /\ orgIdx' = orgIdx + 1
                   /\ listingCalls' = Append(listingCalls, ListingCall(orgIdx + 1))
                   /\ options' = CallerOptionsAfterListing(
                                     options, orgsAndTokens[orgIdx + 1].login)
                   /\ UNCHANGED <<pc, fanOut>>
              ELSE /\ fanOut' = FanOutFinal(error, orgs)
                   /\ pc' = "fanOutSettled"
                   /\ UNCHANGED <<orgIdx, listingCalls, options>>
  /\ UNCHANGED <<job, orgsAndTokens, cacheOptions, cursor, entities,
                 innerCalls, processed, pipeline, thrown, cb>>
  /\ UNCHANGED <<topCalls, outerResult, topPath>>
  /\ UNCHANGED outsideAgg

\* The caller's callback of a fan-out method.
FanOutCallback ==
  /\ pc = "fanOutSettled"
  /\ ~job.nested
  /\ ~CachedAnswerPending
  /\ cb' = DeliverFetched(fanOut)
  /\ TopSettle(fanOut)
  /\ pc' = "done"
  /\ UNCHANGED <<job, orgsAndTokens, options, cacheOptions, orgIdx, values,
                 fanOut, listingCalls, listingResults, cursor, entities,
                 innerCalls, processed, pipeline, thrown>>
  /\ UNCHANGED <<topCalls, outerResult, listingPayloads, topPath>>

\* The callback crossOrganizationCollection passes to its outer function.
OuterCallback ==
  /\ pc = "fanOutSettled"
  /\ job.nested
  /\ ~CachedAnswerPending
  /\ \E shape \in OuterShapes :
       LET outerError == OuterError(fanOut.error, shape)
       IN  /\ outerResult' = IF fanOut.error # NoError THEN "error" ELSE shape
           /\ IF outerError # NoError
              THEN /\ pipeline' = Rejected(outerError)
                   /\ pc' = "pipelineSettled"
                   /\ UNCHANGED <<cursor, innerCalls, processed, thrown>>
              ELSE IF shape = "noResult"
              THEN /\ thrown' = TypeError
                   /\ pc' = "thrown"
                   /\ UNCHANGED <<cursor, innerCalls, processed, pipeline>>
              ELSE RunLoops(fanOut.data, 1, 1, entities, processed)
  /\ UNCHANGED <<job, orgsAndTokens, options, cacheOptions, orgIdx, values,
                 fanOut, listingCalls, listingResults, entities, cb, topCalls,
                 listingPayloads, topPath>>
  /\ UNCHANGED outsideAgg

\* The callback of the outstanding inner call.
InnerCallback ==
  /\ pc = "inner"
  /\ \E outcome \in InnerOutcomes :
       LET orgName == fanOut.data[cursor.o].login
           orgEntity == fanOut.data[cursor.o].entities[cursor.e]
           ents == EntitiesAfterInner(entities, outcome, orgName, orgEntity)
           log == Append(processed,
                         [org |-> orgName, entity |-> orgEntity, outcome |-> outcome])
       IN  /\ entities' = ents
           /\ fanOut' = [fanOut EXCEPT !.data =
                            OuterDataAfterInner(fanOut.data, cursor.o, cursor.e,
                                                outcome)]
           /\ RunLoops(fanOut.data, cursor.o, cursor.e + 1, ents, log)
  /\ UNCHANGED <<job, orgsAndTokens, options, cacheOptions, orgIdx, values,
                 listingCalls, listingResults, cb>>
  /\ UNCHANGED <<topCalls, outerResult, listingPayloads, topPath>>
  /\ UNCHANGED outsideAgg

\* The caller's callback of a nested aggregation method.
PipelineCallback ==
  /\ pc = "pipelineSettled"
  /\ cb' = DeliverFetched(pipeline)
  /\ TopSettle(pipeline)
  /\ pc' = "done"
  /\ UNCHANGED <<job, orgsAndTokens, options, cacheOptions, orgIdx, values,
                 fanOut, listingCalls, listingResults, cursor, entities,
                 innerCalls, processed, pipeline, thrown>>
  /\ UNCHANGED <<topCalls, outerResult, listingPayloads, topPath>>

\* ------------------------------------------------------------------------
\* Specification of one invocation
\* ------------------------------------------------------------------------
CacheIdle ==
  /\ clock = 0
  /\ store = [present |-> FALSE, value |-> 0, timestamp |-> 0]
  /\ inflight = [active |-> FALSE, id |-> 0, background |-> FALSE]
  /\ fetches = 0
  /\ completed = <<>>
  /\ calls = <<>>

KeyIdle ==
  /\ contexts = <<>>
  /\ resolutions = <<>>

\* A request property that was never assigned.
NoContext == 0

\* The null value of a property.
Null == "null"

NoAssignment == [ctx |-> 0, property |-> "none", value |-> Null, threw |-> FALSE]

\* The special teams of an organization, in the order the job takes them.
SpecialTeamIds == <<1, 2>>
SpecialTeams == {SpecialTeamIds[i] : i \in 1..Len(SpecialTeamIds)}

\* A team without a permission on a repository.
NoPermission == "none"

\* permissionsRun awaiting the repositories of its first organization.
JobIdle ==
  /\ run = [pc |-> "org", org |-> 1, repo |-> 0,
            required |-> [t \in SpecialTeams |-> "pull"],
            read |-> [t \in SpecialTeams |-> NoPermission],
            teams |-> [t \in SpecialTeams |-> NoPermission],
            toSet |-> {}, pending |-> <<>>, attempted |-> {}]
  /\ visited = <<>>

\* No POST /:repoName request was made.
NoPost ==
  [pc |-> "idle", permissions |-> EmptyObject, body |-> EmptyObject,
   nextErrors |-> <<>>, redirects |-> 0, edited |-> FALSE,
   refreshed |-> "none", privateBefore |-> TRUE, savedBefore |-> 0]

RouteIdle ==
  /\ repo = [private |-> TRUE, edits |-> <<>>, refreshes |-> <<>>]
  /\ post = NoPost
  /\ posts = 0

\* A session no alert was saved in and no view was rendered for.
WebIdle ==
  /\ session = [present |-> TRUE, hasAlerts |-> FALSE, alerts |-> <<>>]
  /\ saveCalls = 0
  /\ saved = <<>>
  /\ renders = <<>>

\* A request no middleware has run for.
RequestIdle ==
  /\ req = [individualContext |-> NoContext, apiContext |-> NoContext]
  /\ individualContexts = <<>>
  /\ nextArgs = <<>>
  /\ assignments = 0
  /\ lastAssignment = NoAssignment
  /\ adminCalls = 0
  /\ adminChecks = <<>>

Init ==
  /\ job \in Jobs
  /\ orgsAndTokens \in TokenSets
  /\ \E input \in CallerInputs :
       /\ options = input.options
       /\ cacheOptions = input.cacheOptions
  /\ pc = "idle"
  /\ orgIdx = 0
  /\ values = <<>>
  /\ fanOut = Pending
  /\ listingCalls = <<>>
  /\ listingResults = <<>>
  /\ cursor = [o |-> 0, e |-> 0]
  /\ entities = <<>>
  /\ innerCalls = <<>>
  /\ processed = <<>>
  /\ pipeline = Pending
  /\ thrown = NoError
  /\ cb = NoCallback
  /\ topCalls = <<>>
  /\ outerResult = "none"
  /\ listingPayloads = <<>>
  /\ topPath = "none"
  /\ CacheIdle
  /\ KeyIdle
  /\ RequestIdle
  /\ WebIdle
  /\ RouteIdle
  /\ JobIdle

Next ==
  \/ Invoke
  \/ ListingCallback
  \/ FanOutCallback
  \/ OuterCallback
  \/ InnerCallback
  \/ PipelineCallback

Spec == Init /\ [][Next]_vars

\* One invocation of a fan-out method (getAllTeams, getAllRepos): the
\* per-organization listing calls and the fan-out's completion.
InitFanOut == Init /\ ~job.nested

NextFanOut ==
  \/ Invoke
  \/ ListingCallback
  \/ FanOutCallback

SpecFanOut == InitFanOut /\ [][NextFanOut]_vars

\* One invocation of a nested-collection method: the outer function's
\* fan-out followed by the inner call of every outer entity.
InitPipeline == Init /\ job.nested

NextPipeline ==
  \/ Invoke
  \/ ListingCallback
  \/ OuterCallback
  \/ InnerCallback
  \/ PipelineCallback

SpecPipeline == InitPipeline /\ [][NextPipeline]_vars

\* The same invocations, under which the properties of the inner calls'
\* outcomes are checked.
SpecInnerCalls == InitPipeline /\ [][NextPipeline]_vars

\* The same invocations, under which the properties of the outer result and
\* of what is handed on from it are checked.
SpecOuterResult == InitPipeline /\ [][NextPipeline]_vars

\* ------------------------------------------------------------------------
\* Properties of one invocation
\* ------------------------------------------------------------------------
RECURSIVE TotalListed(_)
\* The number of entities in a per-organization map.
TotalListed(orgs) ==
  IF orgs = <<>> THEN 0
  ELSE Len(Head(orgs).entities) + TotalListed(Tail(orgs))

InnerFailed(entry) == entry.outcome \in {"error", "data"}
InnerSucceeded(entry) == entry.outcome \in {"bare", "noResult"}

\* C1: when the listing call of an organization calls back with an error,
\* the fan-out is rejected with that error, that listing call is the last
\* one issued, and the caller receives the error and no per-organization map.
OuterFailurePropagation ==
  \A i \in 1..Len(listingResults) :
    listingResults[i] = "error" =>
      /\ fanOut = Rejected(UpstreamError(listingCalls[i].org))
      /\ Len(listingCalls) = i
      /\ pipeline.state # "resolved"
      /\ ~cb.hasResult
      /\ cb.count = 1 => cb.error = UpstreamError(listingCalls[i].org)

\* C1 witness: the second organization's listing failed after the first
\* succeeded, and the caller's callback has run.
OuterFailureWitness ==
  /\ Len(listingResults) = 2
  /\ listingResults[1] = "bare"
  /\ listingResults[2] = "error"
  /\ cb.count = 1

\* Scenario A: organizations alpha and beta with two teams each, where only
\* the members fetch of beta's second team failed.
ScenarioA ==
  /\ job.apiName = "teamMembers"
  /\ orgsAndTokens = TokenSet(<<alpha, beta>>)
  /\ pipeline.state = "resolved"
  /\ TotalListed(fanOut.data) = 4
  /\ Len(processed) = 4
  /\ processed[4].outcome = "error"
  /\ \A i \in 1..3 : processed[i].outcome = "bare"

\* C2 as stated: a resolved run in which an inner fetch failed still outputs
\* every entity of the outer listing; scenario A outputs 4 entities. The
\* inner callback leaves the failed entity out, so this does not hold.
InnerFailureKeepsAllEntities ==
  /\ (pipeline.state = "resolved" /\ \E i \in 1..Len(processed) : InnerFailed(processed[i]))
       => Len(pipeline.data) = TotalListed(fanOut.data)
  /\ ScenarioA => Len(pipeline.data) = 4

\* The successful entries of the processing log, in order.
Succeeded == SelectSeq(processed, InnerSucceeded)

\* C3: the entities array holds exactly one entity per successful inner
\* call, in order, with the collectionKey field holding that call's result,
\* and the pipeline is never rejected with an inner call's error.
AppendOnlyOnInnerSuccess ==
  /\ Len(entities) = Len(Succeeded)
  /\ \A j \in 1..Len(entities) :
       /\ entities[j]["id"] = Succeeded[j].entity["id"]
       /\ Has(entities[j], job.collectionKey)
       /\ entities[j][job.collectionKey]
            = IF Succeeded[j].outcome = "bare"
              THEN Payload(Succeeded[j].entity["id"][2]) ELSE Undefined
  /\ pipeline.state = "resolved" => pipeline.data = entities
  /\ pipeline.error.kind \notin {"innerUpstream", "innerDataSet"}
  /\ cb.error.kind \notin {"innerUpstream", "innerDataSet"}

\* C3 witness: a resolved run with both a failed and a successful inner call.
AppendOnlyWitness ==
  /\ pipeline.state = "resolved"
  /\ \E i, k \in 1..Len(processed) :
       processed[i].outcome = "error" /\ processed[k].outcome = "bare"
  /\ cb.count = 1

\* C4 as stated: whenever the pipeline looks up the token of an organization
\* that is registered in orgsAndTokens under some casing of its login, the
\* lookup finds a token.
CaseInsensitiveTokenLookup ==
  \A i \in 1..Len(processed) :
    (\E k \in 1..Len(orgsAndTokens) :
        toLowerCase(orgsAndTokens[k].login) = toLowerCase(processed[i].org))
      => processed[i].outcome # "next"

\* C5: when the iteratee of a 'team' or 'repo' pipeline resolves no token
\* for the entity's organization (the lower-cased login), no inner call
\* is issued for that entity or any later one, and the pipeline is rejected
\* with the missing-token error, which is what the caller receives.
MissingTokenIsFatal ==
  /\ \A j \in 1..Len(innerCalls) : innerCalls[j].token # NoToken
  /\ \A i \in 1..Len(processed) :
       (/\ job.innerKeyType \in {"team", "repo"}
        /\ TokenLookup(orgsAndTokens, toLowerCase(processed[i].org)) = NoToken) =>
         /\ i = Len(processed)
         /\ Len(innerCalls) = i - 1
         /\ ~\E j \in 1..Len(innerCalls) :
               /\ innerCalls[j].org = processed[i].org
               /\ innerCalls[j].entity = processed[i].entity
         /\ pc \in {"pipelineSettled", "done"}
         /\ pipeline = Rejected(MissingTokenError(processed[i].org))
         /\ ~cb.hasResult
         /\ cb.count = 1 => cb.error = MissingTokenError(processed[i].org)

\* C5 witness: the token lookup failed for an entity after an inner call of
\* an earlier entity, and the caller's callback has run.
MissingTokenWitness ==
  /\ Len(processed) = 2
  /\ processed[1].outcome = "bare"
  /\ processed[2].outcome = "next"
  /\ cb.count = 1

\* A fatal error: a listing call failed or returned nothing, the outer
\* result had no data property, or a token was missing.
FatalErrorHappened ==
  \/ \E i \in 1..Len(listingResults) : listingResults[i] \in {"error", "noResult"}
  \/ \E i \in 1..Len(processed) : processed[i].outcome = "next"
  \/ pipeline.error = NoDataPropertyError

\* C6: the caller's callback runs at most once, with either an error or a
\* result; a result covers every organization (fan-out) or every listed
\* entity (nested), and no result is delivered once a fatal error happened.
CallbackOnceExclusive ==
  /\ cb.count <= 1
  /\ cb.count = 1 => ((cb.error # NoError) <=> ~cb.hasResult)
  /\ cb.count = 0 => (cb.error = NoError /\ ~cb.hasResult)
  /\ (cb.hasResult /\ ~job.nested) =>
       /\ Len(cb.result) = Len(orgsAndTokens)
       /\ \A i \in 1..Len(cb.result) : cb.result[i].login = orgsAndTokens[i].login
  /\ (cb.hasResult /\ job.nested) =>
       /\ Len(processed) = TotalListed(fanOut.data)
       /\ cb.result = entities
  /\ FatalErrorHappened => ~cb.hasResult

\* C6 witness: the callback has run once with an error after part of the
\* output was built, or once with a complete result.
CallbackOnceWitness ==
  /\ cb.count = 1
  /\ \/ cb.error # NoError /\ Len(entities) > 0
     \/ cb.hasResult /\ Len(cb.result) > 1

\* ------------------------------------------------------------------------
\* generalizedCollectionMethod and the cache execution context, for one
\* cache key and several callers
\* ------------------------------------------------------------------------
Callers == 1..NumCallers

\* The cache policies callers pass as cacheOptions.
CachePolicies ==
  { EmptyObject,
    [maxAgeSeconds |-> Num(600)],
    [maxAgeSeconds |-> Num(0), backgroundRefresh |-> Bool(FALSE)],
    [maxAgeSeconds |-> Num(600), backgroundRefresh |-> Bool(TRUE)],
    [maxAgeSeconds |-> Num(-60), backgroundRefresh |-> Bool(FALSE)] }

\* Variant: every call that needs the backend starts a fetch of its own.
StartsFetch_NoCoalescing(path) == path \in {"stale", "fetch"}

\* Whether execute starts a fetch-backend invocation: only when none is
\* outstanding for the key.
StartsFetch(path) == path \in {"stale", "fetch"} /\ ~inflight.active

NotCalled ==
  [st |-> "idle", cacheOptions |-> EmptyObject, maxAgeSeconds |-> 0,
   backgroundRefresh |-> FALSE, path |-> "none", sawEntry |-> FALSE, sawAge |-> 0, sawValue |-> 0,
   sawInflight |-> FALSE, sawFetches |-> 0, sawCompleted |-> 0,
   started |-> FALSE, fetch |-> 0, error |-> FALSE, result |-> 0]

\* A caller invokes generalizedCollectionMethod; execute serves the call
\* from the store or makes it wait for a fetch.
Execute(c, co) ==
  /\ calls[c].st = "idle"
  /\ LET desc == Descriptor(co)
         path == ExecutePath(desc)
         starts == StartsFetch(path)
         awaited == IF path # "fetch" THEN 0
                    ELSE IF starts THEN fetches + 1 ELSE inflight.id
     IN  /\ calls' = [calls EXCEPT ![c] =
                [st |-> IF path = "fetch" THEN "waiting" ELSE "done",
                 cacheOptions |-> co,
                 maxAgeSeconds |-> desc.maxAgeSeconds,
                 backgroundRefresh |-> desc.backgroundRefresh,
                 path |-> path,
                 sawEntry |-> store.present,
                 sawAge |-> IF store.present THEN Age ELSE 0,
                 sawValue |-> store.value,
                 sawInflight |-> inflight.active,
                 sawFetches |-> fetches,
                 sawCompleted |-> Len(completed),
                 started |-> starts,
                 fetch |-> awaited,
                 error |-> FALSE,
                 result |-> IF path = "fetch" THEN 0 ELSE store.value]]
         /\ fetches' = IF starts THEN fetches + 1 ELSE fetches
         /\ inflight' = IF starts
                        THEN [active |-> TRUE, id |-> fetches + 1,
                              background |-> path = "stale"]
                        ELSE inflight
  /\ UNCHANGED <<clock, store, completed>>
  /\ UNCHANGED outsideCache

\* Variant: a failed fetch drops the entry.
StoreAfterFetch_DropOnFailure(ok) ==
  IF ok
  THEN [present |-> TRUE, value |-> inflight.id, timestamp |-> clock]
  ELSE [present |-> FALSE, value |-> 0, timestamp |-> 0]

\* The store after the outstanding fetch completed: its value with the
\* current time on success, the entry as it was on failure.
StoreAfterFetch(ok) ==
  IF ok
  THEN [present |-> TRUE, value |-> inflight.id, timestamp |-> clock]
  ELSE store

\* The outstanding fetch completes: on success the store takes the value
\* with the current time; the callers waiting for it get the value or the
\* error through their callbacks.
FetchCompletes(ok) ==
  /\ inflight.active
  /\ store' = StoreAfterFetch(ok)
  /\ calls' = [c \in Callers |->
                 IF calls[c].st = "waiting" /\ calls[c].fetch = inflight.id
                 THEN [calls[c] EXCEPT !.st = "done", !.error = ~ok,
                                       !.result = IF ok THEN inflight.id ELSE 0]
                 ELSE calls[c]]
  /\ completed' = Append(completed,
                         [id |-> inflight.id, ok |-> ok, at |-> clock,
                          background |-> inflight.background])
  /\ inflight' = [active |-> FALSE, id |-> 0, background |-> FALSE]
  /\ UNCHANGED <<clock, fetches>>
  /\ UNCHANGED outsideCache

\* Time passes.
Tick ==
  /\ clock < StartClock + MaxTicks * TickSeconds
  /\ clock' = clock + TickSeconds
  /\ UNCHANGED <<store, inflight, fetches, completed, calls>>
  /\ UNCHANGED outsideCache

AggIdle ==
  /\ job = TeamsJob
  /\ orgsAndTokens = TokenSet(<<>>)
  /\ options = EmptyObject
  /\ cacheOptions = EmptyObject
  /\ pc = "idle"
  /\ orgIdx = 0
  /\ values = <<>>
  /\ fanOut = Pending
  /\ listingCalls = <<>>
  /\ listingResults = <<>>
  /\ cursor = [o |-> 0, e |-> 0]
  /\ entities = <<>>
  /\ innerCalls = <<>>
  /\ processed = <<>>
  /\ pipeline = Pending
  /\ thrown = NoError
  /\ cb = NoCallback
  /\ topCalls = <<>>
  /\ outerResult = "none"
  /\ listingPayloads = <<>>
  /\ topPath = "none"

InitCache ==
  /\ AggIdle
  /\ clock = StartClock
  /\ \/ store = [present |-> FALSE, value |-> 0, timestamp |-> 0]
     \/ \E age \in InitialAges :
          store = [present |-> TRUE, value |-> 0, timestamp |-> StartClock - age]
  /\ inflight = [active |-> FALSE, id |-> 0, background |-> FALSE]
  /\ fetches = 0
  /\ completed = <<>>
  /\ calls = [c \in Callers |-> NotCalled]
  /\ KeyIdle
  /\ RequestIdle
  /\ WebIdle
  /\ RouteIdle
  /\ JobIdle

NextCache ==
  \/ \E c \in Callers, co \in CachePolicies : Execute(c, co)
  \/ \E ok \in BOOLEAN : FetchCompletes(ok)
  \/ Tick

SpecCache == InitCache /\ [][NextCache]_vars

\* ------------------------------------------------------------------------
\* Properties of the cache execution context
\* ------------------------------------------------------------------------
Called(c) == calls[c].st # "idle"
BackgroundPolicy(c) == Truthy(Get(calls[c].cacheOptions, "backgroundRefresh"))
\* The call found an entry older than its maxAgeSeconds.
StaleSeen(c) ==
  Called(c) /\ calls[c].sawEntry /\ calls[c].sawAge > calls[c].maxAgeSeconds
\* The call was answered at once with the entry it found, without the backend.
ServedFromStore(c) ==
  /\ calls[c].st = "done"
  /\ ~calls[c].error
  /\ calls[c].result = calls[c].sawValue
  /\ calls[c].fetch = 0

\* C7: callers waiting at the same time wait for the one outstanding fetch;
\* a call made while a fetch is outstanding starts none, so when all callers
\* wait together exactly one backend invocation was made, and every caller
\* of a fetch receives that fetch's outcome.
Coalescing ==
  /\ \A c \in Callers :
       calls[c].st = "waiting" => (inflight.active /\ calls[c].fetch = inflight.id)
  /\ \A c \in Callers : calls[c].sawInflight => ~calls[c].started
  /\ fetches = Cardinality({c \in Callers : calls[c].started})
  /\ (\A c \in Callers : calls[c].st = "waiting") => fetches = 1
  /\ \A c \in Callers :
       (calls[c].path = "fetch" /\ calls[c].st = "done") =>
          \E n \in 1..Len(completed) :
             /\ completed[n].id = calls[c].fetch
             /\ completed[n].ok = ~calls[c].error
             /\ ~calls[c].error => calls[c].result = completed[n].id

\* C7 witness: with no entry in the store, all callers waited together and
\* received the value of the single fetch.
CoalescingWitness ==
  /\ NumCallers >= 2
  /\ fetches = 1
  /\ \A c \in Callers :
       /\ calls[c].st = "done"
       /\ calls[c].path = "fetch"
       /\ ~calls[c].sawEntry
       /\ ~calls[c].error
       /\ calls[c].result = 1
  /\ \E c \in Callers : calls[c].sawInflight

\* C8: a call that finds an entry no older than its maxAgeSeconds (600 when
\* the caller passes 600) is answered with that entry and starts no fetch.
FreshnessContract ==
  \A c \in Callers :
    Called(c) =>
      /\ (calls[c].sawEntry /\ calls[c].sawAge <= calls[c].maxAgeSeconds)
           => (ServedFromStore(c) /\ ~calls[c].started /\ calls[c].path = "hit")
      /\ (/\ calls[c].sawEntry
          /\ Get(calls[c].cacheOptions, "maxAgeSeconds") = Num(600)
          /\ calls[c].sawAge <= 600)
           => (ServedFromStore(c) /\ ~calls[c].started /\ calls[c].path = "hit")

\* C8 witness: an entry of positive age within a caller's maxAgeSeconds of
\* 600 was returned and the backend was never invoked.
FreshnessWitness ==
  \E c \in Callers :
    /\ Get(calls[c].cacheOptions, "maxAgeSeconds") = Num(600)
    /\ calls[c].sawEntry
    /\ calls[c].sawAge > 0
    /\ calls[c].sawAge <= 600
    /\ calls[c].st = "done"
    /\ fetches = 0

\* C9: a caller with backgroundRefresh that finds a stale entry is answered
\* at once with the stale value and starts a detached refresh exactly when
\* none is outstanding; a caller with backgroundRefresh that calls after a
\* fetch completed successfully is answered with that fetch's value.
StaleWithBackgroundRefresh ==
  /\ \A c \in Callers :
       (StaleSeen(c) /\ BackgroundPolicy(c)) =>
          /\ ServedFromStore(c)
          /\ calls[c].path = "stale"
          /\ calls[c].started <=> ~calls[c].sawInflight
  /\ \A c \in Callers :
       (/\ Called(c)
        /\ BackgroundPolicy(c)
        /\ calls[c].sawCompleted > 0
        /\ completed[calls[c].sawCompleted].ok) =>
          /\ calls[c].st = "done"
          /\ calls[c].result = completed[calls[c].sawCompleted].id

\* C9 witness: one caller got the stale value and started the refresh; a
\* caller that called after the refresh completed got the refreshed value.
BackgroundRefreshWitness ==
  \E c1, c2 \in Callers :
    /\ StaleSeen(c1) /\ BackgroundPolicy(c1)
    /\ calls[c1].started
    /\ calls[c1].result = 0
    /\ BackgroundPolicy(c2)
    /\ calls[c2].sawCompleted = 1
    /\ completed[1].background /\ completed[1].ok
    /\ calls[c2].result = 1

\* C10: a caller without backgroundRefresh that finds a stale entry waits
\* for exactly one backend fetch (the one it starts, unless one is already
\* outstanding), receives the fetched value and not the stale one, and the
\* store holds a fetched value with the time its fetch completed.
StaleWithoutBackgroundRefresh ==
  /\ \A c \in Callers :
       (StaleSeen(c) /\ ~BackgroundPolicy(c)) =>
          /\ calls[c].path = "fetch"
          /\ calls[c].fetch # 0
          /\ calls[c].started <=> ~calls[c].sawInflight
          /\ calls[c].started => calls[c].fetch = calls[c].sawFetches + 1
          /\ (calls[c].st = "done" /\ ~calls[c].error) =>
                /\ calls[c].result = calls[c].fetch
                /\ calls[c].result # calls[c].sawValue
                /\ \E n \in 1..Len(completed) :
                      completed[n].id = calls[c].fetch /\ completed[n].ok
  /\ (store.present /\ store.value # 0) =>
       \E n \in 1..Len(completed) :
          /\ completed[n].id = store.value
          /\ completed[n].ok
          /\ completed[n].at = store.timestamp

\* C10 witness: a caller with maxAgeSeconds 600 and no backgroundRefresh
\* found an older entry, started the only fetch, and received its value,
\* which the store now holds with the completion time.
SynchronousRefetchWitness ==
  \E c \in Callers :
    /\ calls[c].cacheOptions = [maxAgeSeconds |-> Num(600)]
    /\ StaleSeen(c)
    /\ calls[c].started
    /\ fetches = 1
    /\ calls[c].st = "done"
    /\ calls[c].result = 1
    /\ store.value = 1
    /\ store.timestamp = completed[1].at


\* ------------------------------------------------------------------------
\* The cache key of a generalized collection call
\* ------------------------------------------------------------------------
\* The number of calls whose keys are compared.
MaxKeyCalls == 2

KeyApiNames == {"teams", "repos"}
KeyMethods == {"crossOrgMethod", "getTeamMembers"}
KeyTokens == {TokenOf(alpha), TokenOf(beta), NoToken}

\* Option objects with their properties in insertion order.
OrderedOptions ==
  { <<>>,
    << [name |-> "org", value |-> Str(alpha)],
       [name |-> "per_page", value |-> Num(100)] >>,
    << [name |-> "per_page", value |-> Num(100)],
       [name |-> "org", value |-> Str(alpha)] >>,
    << [name |-> "org", value |-> Str(beta)],
       [name |-> "per_page", value |-> Num(100)] >>,
    << [name |-> "per_page", value |-> Num(100)] >> }

\* The mapping an option object denotes, whatever its insertion order.
OptionMapping(opts) ==
  [k \in {opts[i].name : i \in 1..Len(opts)} |->
     opts[CHOOSE i \in 1..Len(opts) : opts[i].name = k].value]

\* Variant: the token is handed to the context as one more option.
ApiContext_TokenInOptions(token, apiName, method, opts) ==
  [apiName |-> apiName, method |-> method,
   options |-> Append(opts, [name |-> "token", value |-> Str(token)]),
   token |-> token]

\* The CompositeApiContext generalizedCollectionMethod builds: the
\* constructor takes apiName, method and options, and the token is set
\* afterwards with overrideToken.
ApiContext(token, apiName, method, opts) ==
  [apiName |-> apiName, method |-> method, options |-> opts, token |-> token]

\* The cache key of a context: computed from apiName, the method's identity
\* and the options as a mapping.
CacheKey(ctx) ==
  [apiName |-> ctx.apiName, method |-> ctx.method,
   options |-> OptionMapping(ctx.options)]

\* A call of generalizedCollectionMethod: the context is built and handed to
\* execute, which computes its key and fetches with the context's token.
CollectionCall(token, apiName, method, opts) ==
  /\ Len(contexts) < MaxKeyCalls
  /\ LET apiContext == ApiContext(token, apiName, method, opts)
     IN  /\ contexts' = Append(contexts,
                 [token |-> token, apiName |-> apiName, method |-> method,
                  options |-> opts])
         /\ resolutions' = Append(resolutions,
                 [key |-> CacheKey(apiContext), fetchToken |-> apiContext.token])
  /\ UNCHANGED outsideKey

InitKey ==
  /\ KeyIdle
  /\ RequestIdle
  /\ WebIdle
  /\ RouteIdle
  /\ JobIdle
  /\ AggIdle
  /\ CacheIdle

NextKey ==
  \E token \in KeyTokens, apiName \in KeyApiNames, method \in KeyMethods,
     opts \in OrderedOptions :
    CollectionCall(token, apiName, method, opts)

SpecKey == InitKey /\ [][NextKey]_vars

\* Two calls name the same descriptor: equal apiName, method identity and
\* options as mappings.
SameDescriptor(a, b) ==
  /\ contexts[a].apiName = contexts[b].apiName
  /\ contexts[a].method = contexts[b].method
  /\ OptionMapping(contexts[a].options) = OptionMapping(contexts[b].options)

\* C11: two calls with equal apiName, method identity and options resolve to
\* the same cache key, whatever the insertion order of their options and
\* whatever their tokens, and every call fetches with its own token.
CacheKeyStability ==
  /\ \A a \in 1..Len(resolutions) : \A b \in 1..Len(resolutions) :
       SameDescriptor(a, b) => resolutions[a].key = resolutions[b].key
  /\ \A a \in 1..Len(resolutions) :
       resolutions[a].fetchToken = contexts[a].token

\* Two calls with the same options inserted in different orders and with
\* different tokens have been resolved.
CacheKeyStabilityWitness ==
  /\ Len(resolutions) = 2
  /\ SameDescriptor(1, 2)
  /\ contexts[1].options # contexts[2].options
  /\ contexts[1].token # contexts[2].token
  /\ resolutions[1].key = resolutions[2].key
  /\ resolutions[2].fetchToken = contexts[2].token


\* C12 as stated: the context's maxAgeSeconds is 600 exactly when the
\* caller's cache policy has no maxAgeSeconds and is the caller's value
\* whenever one is supplied, 0 and negative values included; the context's
\* backgroundRefresh is the caller's.
PolicyDefaults ==
  \A c \in Callers :
    Called(c) =>
      /\ calls[c].maxAgeSeconds =
           IF Has(calls[c].cacheOptions, "maxAgeSeconds")
           THEN calls[c].cacheOptions["maxAgeSeconds"][2]
           ELSE DefaultMaxAgeSeconds
      /\ calls[c].backgroundRefresh =
           Truthy(Get(calls[c].cacheOptions, "backgroundRefresh"))


\* The maxAgeSeconds the claim gives the calls issued during fan-out: the
\* caller's individualMaxAgeSeconds when the cache policy has one, else the
\* caller's maxAgeSeconds.
SubCallMaxAge ==
  IF Has(cacheOptions, "individualMaxAgeSeconds")
  THEN cacheOptions["individualMaxAgeSeconds"]
  ELSE Get(cacheOptions, "maxAgeSeconds")

\* C13 as stated: every listing call and every inner call is issued with
\* maxAgeSeconds = individualMaxAgeSeconds when the caller's cache policy sets
\* it and with the caller's maxAgeSeconds otherwise, and the aggregated calls
\* that wrap them keep the caller's maxAgeSeconds.
IndividualMaxAgeOverride ==
  /\ \A i \in 1..Len(listingCalls) :
       Get(listingCalls[i].cacheOptions, "maxAgeSeconds") = SubCallMaxAge
  /\ \A j \in 1..Len(innerCalls) :
       Get(innerCalls[j].cacheOptions, "maxAgeSeconds") = SubCallMaxAge
  /\ \A t \in 1..Len(topCalls) :
       Get(topCalls[t].cacheOptions, "maxAgeSeconds") =
         Get(cacheOptions, "maxAgeSeconds")


\* Entity e of organization o in the outer function's result is the entity
\* an output entity was cloned from.
ClonedFrom(ent, o, e) ==
  /\ o \in 1..Len(fanOut.data)
  /\ e \in 1..Len(fanOut.data[o].entities)
  /\ fanOut.data[o].entities[e]["id"] = ent["id"]

\* Listing position (o1, e1) comes before (o2, e2).
ListedBefore(o1, e1, o2, e2) == o1 < o2 \/ (o1 = o2 /\ e1 < e2)

\* The sequence lists entities by organization in the order of the token
\* set and, within an organization, in the order of its listing: every
\* entity is listed after the one before it in the sequence.
InListingOrder(ents) ==
  \A a \in 1..Len(ents) - 1 :
    \A o1 \in 1..Len(fanOut.data) :
      \A e1 \in 1..Len(fanOut.data[o1].entities) :
        ClonedFrom(ents[a], o1, e1) =>
          \A o2 \in 1..Len(fanOut.data) :
            \A e2 \in 1..Len(fanOut.data[o2].entities) :
              ClonedFrom(ents[a + 1], o2, e2) => ListedBefore(o1, e1, o2, e2)

\* C14: the outer result lists the organizations in the order orgsAndTokens
\* is iterated, and the pipeline's entities, while collected and when
\* resolved, follow that order and within one organization the order of the
\* organization's listing.
OutputOrdering ==
  job.nested =>
    /\ fanOut.state = "resolved" =>
         \A o \in 1..Len(fanOut.data) :
           fanOut.data[o].login = orgsAndTokens[o].login
    /\ InListingOrder(entities)
    /\ pipeline.state = "resolved" => pipeline.data = entities

\* The pipeline resolved with three entities of two organizations whose
\* order in orgsAndTokens is not the order of their entities' ids.
OutputOrderingWitness ==
  /\ job.nested
  /\ orgsAndTokens = TokenSet(<<contoso, alpha>>)
  /\ pipeline.state = "resolved"
  /\ Len(pipeline.data) = 3
  /\ pipeline.data[1]["id"] = Entity(contoso, 1)["id"]
  /\ pipeline.data[2]["id"] = Entity(contoso, 2)["id"]
  /\ pipeline.data[3]["id"] = Entity(alpha, 1)["id"]


\* The listing calls and inner calls that have not called back yet.
OutstandingListings == Len(listingCalls) - Len(listingResults)
OutstandingInner ==
  Len(innerCalls) -
    Cardinality({i \in 1..Len(processed) : processed[i].outcome \in InnerOutcomes})

\* The iteratee has finished entity e of organization o of the outer result.
Finished(o, e) ==
  \E i \in 1..Len(processed) :
    /\ processed[i].org = fanOut.data[o].login
    /\ processed[i].entity = fanOut.data[o].entities[e]

\* C15: at most one call issued by an invocation is outstanding at any
\* time: a listing call is issued only after every earlier listing call
\* called back, an inner call only after every earlier inner call called
\* back, and while an entity's inner call is outstanding every entity listed
\* before it, all entities of the earlier organizations included, is
\* finished.
ConcurrencyCeiling ==
  /\ OutstandingListings >= 0 /\ OutstandingInner >= 0
  /\ OutstandingListings + OutstandingInner <= OuterLimit
  /\ OutstandingInner = 1 =>
       LET call == innerCalls[Len(innerCalls)]
       IN  /\ call.org = fanOut.data[cursor.o].login
           /\ call.entity = fanOut.data[cursor.o].entities[cursor.e]
           /\ \A o0 \in 1..cursor.o :
                \A e0 \in 1..Len(fanOut.data[o0].entities) :
                  ListedBefore(o0, e0, cursor.o, cursor.e) => Finished(o0, e0)

\* The inner call of the second organization's first entity is outstanding
\* after two listing calls and the first organization's two inner calls
\* called back.
ConcurrencyCeilingWitness ==
  /\ pc = "inner"
  /\ Len(listingCalls) = 2 /\ Len(listingResults) = 2
  /\ cursor.o = 2
  /\ Len(innerCalls) = 3
  /\ OutstandingInner = 1
  /\ Len(processed) = 2


\* The outer function called back with a result that has a data property.
OuterSucceeded == outerResult = "withData"

\* C16 as stated: a pipeline whose innerKeyType is neither 'team' nor 'repo'
\* issues no inner call and, whatever the outer listing returned, is
\* rejected with the unsupported-key-type error, which is what the caller's
\* callback receives.
UnsupportedKeyTypeFailsFast ==
  (job.nested /\ job.innerKeyType \notin {"team", "repo"}) =>
    /\ innerCalls = <<>>
    /\ OuterSucceeded =>
         /\ thrown = NoError
         /\ pipeline = Rejected(UnsupportedKeyTypeError)
         /\ cb.count = 1 => cb.error = UnsupportedKeyTypeError /\ ~cb.hasResult


\* The errors an upstream call or the fan-out reports.
UpstreamErrorKinds == {"upstream", "noResult", "innerUpstream"}

\* C17: when the outer function calls back without error with a result that
\* has no data property, the pipeline is rejected with the missing-data error,
\* which is none of the upstream errors, and no inner call is issued; when
\* the outer function calls back with an error, the pipeline is rejected with
\* that error and no inner call is issued.
OuterStructuralError ==
  job.nested =>
    /\ outerResult = "withoutData" =>
         /\ fanOut.error = NoError
         /\ pipeline = Rejected(NoDataPropertyError)
         /\ pipeline.error.kind \notin UpstreamErrorKinds
         /\ innerCalls = <<>> /\ processed = <<>>
         /\ cb.count = 1 => cb.error = NoDataPropertyError /\ ~cb.hasResult
    /\ outerResult = "error" =>
         /\ fanOut.error # NoError
         /\ pipeline = Rejected(fanOut.error)
         /\ innerCalls = <<>> /\ processed = <<>>
         /\ cb.count = 1 => cb.error = fanOut.error /\ ~cb.hasResult

\* The outer function listed an organization and called back with a result
\* without data property, and the caller received the missing-data error.
OuterStructuralErrorWitness ==
  /\ job.nested
  /\ outerResult = "withoutData"
  /\ Len(listingResults) >= 1
  /\ values # <<>>
  /\ pipeline = Rejected(NoDataPropertyError)
  /\ cb.count = 1
  /\ cb.error = NoDataPropertyError


\* The outer function has called back and no inner call is outstanding:
\* every collaborator the pipeline called has called back.
AllCalledBack == outerResult # "none" /\ pc # "inner"

\* C18 as stated, for the supported key types: once every call the pipeline
\* issued has called back, whatever the outer function and the inner calls
\* reported, the pipeline's promise is resolved or rejected.
PipelineTermination ==
  (job.nested /\ job.innerKeyType \in {"team", "repo"} /\ AllCalledBack) =>
    pipeline.state \in {"resolved", "rejected"}


\* C19 as stated: every inner call of a 'team' pipeline has team_id = the
\* entity's id, and every inner call of a 'repo' pipeline has owner = the
\* organization's login and repo = the entity's name, whatever the caller's
\* options contain.
InnerIdentifyingParameters ==
  \A j \in 1..Len(innerCalls) :
    /\ job.innerKeyType = "team" =>
         Get(innerCalls[j].options, "team_id") = Get(innerCalls[j].entity, "id")
    /\ job.innerKeyType = "repo" =>
         /\ Get(innerCalls[j].options, "owner") = Str(innerCalls[j].org)
         /\ Get(innerCalls[j].options, "repo") = Get(innerCalls[j].entity, "name")

\* C20: the options of every inner call have neither a maxAgeSeconds nor a
\* backgroundRefresh property, whatever the caller's options contain.
CachePolicyOutOfBand ==
  \A j \in 1..Len(innerCalls) :
    /\ ~Has(innerCalls[j].options, "maxAgeSeconds")
    /\ ~Has(innerCalls[j].options, "backgroundRefresh")

\* An inner call was issued for a caller whose options contain both
\* maxAgeSeconds and backgroundRefresh, and it carries the caller's per_page.
CachePolicyOutOfBandWitness ==
  /\ Has(options, "maxAgeSeconds")
  /\ Has(options, "backgroundRefresh")
  /\ Len(innerCalls) >= 1
  /\ Get(innerCalls[1].options, "per_page") = Get(options, "per_page")
  /\ Get(options, "per_page") # Num(100)


\* The input the caller invoked the method with: its options are the
\* caller's, apart from the apiTypePrefix the public method sets, and its
\* cache policy is the caller's.
CallerInput(in) ==
  /\ in.cacheOptions = cacheOptions
  /\ options \in {in.options, Put(in.options, "apiTypePrefix", ApiTypePrefix)}

\* C21 as stated: every listing call has org = its organization's login and
\* per_page = the template's per_page when the template has one, else 100;
\* the caller's options and cache policy are as the caller passed them.
PerOrganizationOptionsAsStated ==
  /\ \A i \in 1..Len(listingCalls) :
       /\ listingCalls[i].org = orgsAndTokens[i].login
       /\ Get(listingCalls[i].options, "org") = Str(orgsAndTokens[i].login)
       /\ Get(listingCalls[i].options, "per_page") =
            IF Has(FanOutOptions, "per_page")
            THEN FanOutOptions["per_page"] ELSE Num(100)
  /\ \E in \in CallerInputs : CallerInput(in)

\* C21: every listing call has org = its organization's login and per_page =
\* the template's per_page when the template has a truthy one, else 100 (a
\* per_page of 0 counts as none); the caller's options have gained no org
\* or per_page and the caller's cache policy is unchanged.
PerOrganizationOptions ==
  /\ \A i \in 1..Len(listingCalls) :
       /\ listingCalls[i].org = orgsAndTokens[i].login
       /\ Get(listingCalls[i].options, "org") = Str(orgsAndTokens[i].login)
       /\ Get(listingCalls[i].options, "per_page") =
            IF Truthy(Get(FanOutOptions, "per_page"))
            THEN FanOutOptions["per_page"] ELSE Num(100)
  /\ \E in \in CallerInputs : CallerInput(in)

\* A fan-out method was called with a template that has its own org and no
\* per_page, for two organizations, and both listing calls were issued.
PerOrganizationOptionsWitness ==
  /\ ~job.nested
  /\ Len(listingCalls) = 2
  /\ Get(options, "org") = Str(beta)
  /\ Get(listingCalls[1].options, "org") = Str(alpha)
  /\ ~Has(options, "per_page")
  /\ Get(listingCalls[2].options, "per_page") = Num(100)


\* C22: every entity of the outer function's result has, throughout the
\* run, exactly the fields its listing returned it with.
OuterEntitiesNeverMutated ==
  job.nested =>
    \A o \in 1..Len(fanOut.data) :
      fanOut.data[o].entities =
        EntityList(fanOut.data[o].login, Len(fanOut.data[o].entities))

\* The pipeline resolved with an entity that carries the organization stamp
\* and the collection, cloned from an outer entity that has neither.
OuterEntitiesWitness ==
  /\ job.nested /\ job.optionalSetOrganizationLogin
  /\ pipeline.state = "resolved"
  /\ Len(pipeline.data) >= 1
  /\ ClonedFrom(pipeline.data[1], 1, 1)
  /\ Has(pipeline.data[1], job.collectionKey)
  /\ Has(pipeline.data[1], "organization")
  /\ ~Has(fanOut.data[1].entities[1], job.collectionKey)
  /\ ~Has(fanOut.data[1].entities[1], "organization")


\* The organization field the claim gives the clone of an outer entity of
\* organization orgName: the entity's own when it has one, else the stamp
\* when optionalSetOrganizationLogin is set, else none.
ExpectedOrganization(outer, orgName) ==
  IF Has(outer, "organization") THEN outer["organization"]
  ELSE IF job.optionalSetOrganizationLogin THEN OrgObj(orgName)
  ELSE Undefined

\* C23: every output entity's organization field is the outer entity's own
\* when it has one; otherwise it is {login: owning organization} when
\* optionalSetOrganizationLogin is set, and absent when it is not.
CloneOverlay ==
  \A a \in 1..Len(entities) :
    \A o \in 1..Len(fanOut.data) : \A e \in 1..Len(fanOut.data[o].entities) :
      ClonedFrom(entities[a], o, e) =>
        Get(entities[a], "organization") =
          ExpectedOrganization(fanOut.data[o].entities[e], fanOut.data[o].login)

\* A stamping pipeline has output a stamped entity and an entity that kept
\* its own organization field.
CloneOverlayWitness ==
  /\ job.nested /\ job.optionalSetOrganizationLogin
  /\ Len(entities) >= 2
  /\ Get(entities[1], "organization") = OrgObj(fanOut.data[1].login)
  /\ ClonedFrom(entities[2], 1, 2)
  /\ Get(entities[2], "organization") = fanOut.data[1].entities[2]["organization"]
  /\ Get(entities[2], "organization") # OrgObj(fanOut.data[1].login)


\* The list a listing call's result carries, nested or bare.
PayloadList(orgValues) ==
  IF orgValues.hasData THEN orgValues.data ELSE orgValues.items

\* C24: when the fan-out resolves, its orgs map has one key per key of
\* orgsAndTokens and no other, each holding the list that organization's
\* listing call returned, and the headers it returns are empty.
FanOutResultShape ==
  fanOut.state = "resolved" =>
    /\ Len(fanOut.data) = Len(orgsAndTokens)
    /\ \A i \in 1..Len(orgsAndTokens) :
         /\ fanOut.data[i].login = orgsAndTokens[i].login
         /\ fanOut.data[i].entities = PayloadList(listingPayloads[i])
         /\ fanOut.data[i].entities =
              EntityList(orgsAndTokens[i].login, Len(fanOut.data[i].entities))
    /\ fanOut.headers = EmptyObject

\* The fan-out resolved for two organizations whose logins differ only in
\* case, each with a non-empty listing.
FanOutResultShapeWitness ==
  /\ fanOut.state = "resolved"
  /\ orgsAndTokens = TokenSet(<<Contoso, contoso>>)
  /\ Len(fanOut.data) = 2
  /\ fanOut.data[1].entities # <<>>
  /\ fanOut.data[2].entities # <<>>

\* C25: when a listing call's result has a data property, the fan-out
\* stores that data under the organization's login, does not fail on it, and
\* goes on to the next organization or, after the last, resolves.
OuterEnvelopeNormalization ==
  \A i \in 1..Len(listingPayloads) :
    listingPayloads[i].hasData =>
      /\ listingResults[i] = "data"
      /\ \E k \in 1..Len(values) :
           /\ values[k].login = orgsAndTokens[i].login
           /\ values[k].entities = listingPayloads[i].data
      /\ i = Len(listingPayloads) =>
           IF i < Len(orgsAndTokens)
           THEN /\ pc = "listing" /\ fanOut.state = "pending"
                /\ Len(listingCalls) = i + 1
                /\ listingCalls[i + 1].org = orgsAndTokens[i + 1].login
           ELSE fanOut.state = "resolved"

\* The first organization's listing returned a non-empty list inside a data
\* property, and the second organization's listing call has called back.
OuterEnvelopeWitness ==
  /\ Len(listingPayloads) = 2
  /\ listingPayloads[1].hasData
  /\ listingPayloads[1].data # <<>>
  /\ Len(listingCalls) = 2
  /\ fanOut.state = "resolved"
  /\ fanOut.data[1].entities = listingPayloads[1].data


\* C26: when an inner call calls back without error with a result that has
\* a data property, no output entity is made from that entity, the loops
\* go on as after a failed inner call (the next inner call is issued, or
\* the loops end), and the error made for it reaches neither the pipeline's
\* promise nor the caller.
InnerEnvelopeIsError ==
  /\ pipeline.error # InnerDataSetError
  /\ cb.error # InnerDataSetError
  /\ \A i \in 1..Len(processed) :
       processed[i].outcome = "data" =>
         /\ \A a \in 1..Len(entities) :
              entities[a]["id"] # processed[i].entity["id"]
         /\ pc \in {"inner", "pipelineSettled", "done"}
         /\ (i = Len(processed) /\ pc = "inner") =>
              /\ Len(innerCalls) = i + 1
              /\ innerCalls[i + 1].entity # processed[i].entity
         /\ (i = Len(processed) /\ pc # "inner") => pipeline.state = "resolved"

\* The first entity's inner call returned a result with a data property,
\* the second entity's succeeded, and the caller received one entity.
InnerEnvelopeWitness ==
  /\ Len(processed) = 2
  /\ processed[1].outcome = "data"
  /\ processed[2].outcome = "bare"
  /\ pipeline.state = "resolved"
  /\ Len(pipeline.data) = 1
  /\ cb.count = 1 /\ cb.hasResult


\* ------------------------------------------------------------------------
\* An invocation whose aggregated entry may be in the store
\* ------------------------------------------------------------------------
InitTop ==
  /\ job \in {j \in Jobs : j.apiName \in {"teams", "teamMembers"}}
  /\ orgsAndTokens = TokenSet(<<alpha, beta>>)
  /\ \E input \in CallerInputs :
       /\ options = input.options
       /\ cacheOptions = input.cacheOptions
  /\ pc = "idle"
  /\ orgIdx = 0
  /\ values = <<>>
  /\ fanOut = Pending
  /\ listingCalls = <<>>
  /\ listingResults = <<>>
  /\ cursor = [o |-> 0, e |-> 0]
  /\ entities = <<>>
  /\ innerCalls = <<>>
  /\ processed = <<>>
  /\ pipeline = Pending
  /\ thrown = NoError
  /\ cb = NoCallback
  /\ topCalls = <<>>
  /\ outerResult = "none"
  /\ listingPayloads = <<>>
  /\ topPath = "none"
  /\ clock = StartClock
  /\ \/ store = [present |-> FALSE, value |-> 0, timestamp |-> 0]
     \/ \E age \in InitialAges :
          store = [present |-> TRUE, value |-> 0, timestamp |-> StartClock - age]
  /\ inflight = [active |-> FALSE, id |-> 0, background |-> FALSE]
  /\ fetches = 0
  /\ completed = <<>>
  /\ calls = <<>>
  /\ KeyIdle
  /\ RequestIdle
  /\ WebIdle
  /\ RouteIdle
  /\ JobIdle

NextTop ==
  \/ Next
  \/ CachedCallback

SpecTop == InitTop /\ [][NextTop]_vars

\* C27: the aggregated call is resolved under the method's apiName; when
\* execute answers it from the store without fetching, no listing call and
\* no inner call is issued and the caller is called back, once, with the
\* stored result and nothing else; listing and inner calls are issued only
\* when execute fetches the aggregated entry, for a waiting caller or as a
\* refresh.
TwoLevelCaching ==
  /\ topPath # "none" => topCalls[1].apiName = job.apiName
  /\ topPath = "hit" =>
       /\ listingCalls = <<>> /\ innerCalls = <<>>
       /\ Len(topCalls) = 1
       /\ fetches = 0
       /\ pc \in {"returned", "done"}
       /\ cb \in {NoCallback,
                   [count |-> 1, error |-> NoError, hasResult |-> TRUE,
                    result |-> <<Payload(store.value)>>]}
       /\ pc = "done" <=> cb.count = 1
  /\ (listingCalls # <<>> \/ innerCalls # <<>>) =>
       /\ topPath \in {"stale", "fetch"}
       /\ fetches = 1

\* The nested method was answered from a fresh entry of the store for two
\* organizations, and the caller has been called back.
TwoLevelCachingWitness ==
  /\ job.nested
  /\ topPath = "hit"
  /\ store.present
  /\ Len(orgsAndTokens) = 2
  /\ cb.count = 1
  /\ listingCalls = <<>>


\* A background refresh is outstanding.
RefreshOutstanding == inflight.active /\ inflight.background

\* The call that started the outstanding fetch has returned to its caller.
OriginatorGone ==
  \E c \in Callers :
    /\ calls[c].started /\ calls[c].sawFetches + 1 = inflight.id
    /\ calls[c].st = "done"

\* C28: a background refresh is started by a call that is answered at once,
\* stays outstanding until it completes and can complete whatever its
\* callers do; when it fails the store keeps the stale entry it had, and
\* when it succeeds the store holds its value with the completion time.
BackgroundRefreshCompletion ==
  [][RefreshOutstanding =>
       /\ OriginatorGone
       /\ ENABLED FetchCompletes(TRUE)
       /\ inflight' # inflight =>
            /\ ~inflight'.active
            /\ Len(completed') = Len(completed) + 1
            /\ LET done == completed'[Len(completed')]
               IN  /\ done.id = inflight.id /\ done.background
                   /\ IF done.ok
                      THEN store' = [present |-> TRUE, value |-> inflight.id,
                                     timestamp |-> clock]
                      ELSE store' = store /\ store.present]_vars

\* A background refresh failed and left the stale entry, and a later one
\* succeeded and replaced it, each after its caller had been answered.
BackgroundRefreshCompletionWitness ==
  /\ Len(completed) = 2
  /\ completed[1].background /\ ~completed[1].ok
  /\ completed[2].background /\ completed[2].ok
  /\ store = [present |-> TRUE, value |-> completed[2].id,
              timestamp |-> completed[2].at]
  /\ \A c \in Callers : calls[c].st = "done" /\ calls[c].path = "stale"


\* ------------------------------------------------------------------------
\* The contexts of a request
\* ------------------------------------------------------------------------
\* The number of middleware applications to one request.
MaxMiddlewareRuns == 3

\* The number of calls on the contexts of a request: assignments to the
\* set-once properties and isPortalAdministrator calls.
MaxAssignments == 3

CorporateIdentities == {"identity1", "identity2"}
CorporateLinks == {"link1", "link2"}

\* What a middleware passes to next: nothing, or the error of a request
\* that would carry both kinds of context.
NoArgument == "none"
MixedContextsError == "INVALID: API and web contexts should not be mixed"

\* The options each middleware constructs its IndividualContext with.
WebOptions ==
  [corporateIdentity |-> Null, link |-> Null, webApiContext |-> Null,
   webContext |-> "webContext"]
ApiOptions ==
  [corporateIdentity |-> Null, link |-> Null, webApiContext |-> "webApiContext",
   webContext |-> Null]

\* The constructor of IndividualContext: it keeps the identity, the link and
\* the web context of its options.
NewIndividualContext(opts) ==
  [isPortalAdministrator |-> Null,
   corporateIdentity |-> opts.corporateIdentity,
   link |-> opts.link,
   webContext |-> opts.webContext]

\* Variant: the web middleware accepts a request that has an API context.
WebRefuses_Never(r) == FALSE

\* The web middleware refuses a request that carries an API context.
WebRefuses(r) == r.apiContext # NoContext

\* The API middleware refuses a request that carries a web context.
ApiRefuses(r) == r.individualContext # NoContext

\* webContextMiddleware(req, res, next).
webContextMiddleware ==
  /\ Len(nextArgs) < MaxMiddlewareRuns
  /\ IF WebRefuses(req)
     THEN /\ nextArgs' = Append(nextArgs, [middleware |-> "web",
                                           arg |-> MixedContextsError])
          /\ UNCHANGED <<req, individualContexts>>
     ELSE IF req.individualContext # NoContext
     THEN /\ nextArgs' = Append(nextArgs, [middleware |-> "web",
                                           arg |-> NoArgument])
          /\ UNCHANGED <<req, individualContexts>>
     ELSE /\ individualContexts' =
                Append(individualContexts, NewIndividualContext(WebOptions))
          /\ req' = [req EXCEPT !.individualContext = Len(individualContexts) + 1]
          /\ nextArgs' = Append(nextArgs, [middleware |-> "web",
                                           arg |-> NoArgument])
  /\ UNCHANGED <<assignments, lastAssignment, adminCalls, adminChecks>>
  /\ UNCHANGED outsideReq

\* apiContextMiddleware(req, res, next).
apiContextMiddleware ==
  /\ Len(nextArgs) < MaxMiddlewareRuns
  /\ IF ApiRefuses(req)
     THEN /\ nextArgs' = Append(nextArgs, [middleware |-> "api",
                                           arg |-> MixedContextsError])
          /\ UNCHANGED <<req, individualContexts>>
     ELSE /\ individualContexts' =
                Append(individualContexts, NewIndividualContext(ApiOptions))
          /\ req' = [req EXCEPT !.apiContext = Len(individualContexts) + 1]
          /\ nextArgs' = Append(nextArgs, [middleware |-> "api",
                                           arg |-> NoArgument])
  /\ UNCHANGED <<assignments, lastAssignment, adminCalls, adminChecks>>
  /\ UNCHANGED outsideReq

\* Variant: a setter that overwrites the value it holds.
SetterThrows_Never(held) == FALSE

\* A set-once setter throws when the property holds a value.
SetterThrows(held) == held # Null

\* An assignment to a set-once property of a context.
SetOnce(ctx, property, value) ==
  /\ assignments + adminCalls < MaxAssignments
  /\ assignments' = assignments + 1
  /\ LET held == individualContexts[ctx][property]
     IN  IF SetterThrows(held)
         THEN /\ lastAssignment' = [ctx |-> ctx, property |-> property,
                                    value |-> value, threw |-> TRUE]
              /\ UNCHANGED individualContexts
         ELSE /\ lastAssignment' = [ctx |-> ctx, property |-> property,
                                    value |-> value, threw |-> FALSE]
              /\ individualContexts' =
                   [individualContexts EXCEPT ![ctx][property] = value]
  /\ UNCHANGED <<req, nextArgs, adminCalls, adminChecks>>
  /\ UNCHANGED outsideReq

\* set corporateIdentity(value).
SetCorporateIdentity(ctx, value) == SetOnce(ctx, "corporateIdentity", value)

\* set link(value).
SetLink(ctx, value) == SetOnce(ctx, "link", value)

\* isPortalAdministrator() up to its await: the username of the GitHub
\* identity is read and the administrator check is started. With a link the
\* identity is the link's; without one it is the session's identity, which
\* is not part of this model, so the call either finds it or throws on null
\* and the promise rejects with nothing awaited.
isPortalAdministrator(ctx, hasSessionIdentity) ==
  /\ assignments + adminCalls < MaxAssignments
  /\ adminCalls' = adminCalls + 1
  /\ adminChecks' =
       IF individualContexts[ctx].link # Null \/ hasSessionIdentity
       THEN Append(adminChecks, ctx)
       ELSE adminChecks
  /\ UNCHANGED <<req, individualContexts, nextArgs, assignments, lastAssignment>>
  /\ UNCHANGED outsideReq

\* The i-th awaited administrator check settles: its result is written to
\* the context's _isPortalAdministrator; a rejected check writes nothing.
AdministratorCheckSettles(i, outcome) ==
  /\ i \in 1..Len(adminChecks)
  /\ adminChecks' = SubSeq(adminChecks, 1, i - 1)
                      \o SubSeq(adminChecks, i + 1, Len(adminChecks))
  /\ individualContexts' =
       IF outcome = "rejected" THEN individualContexts
       ELSE [individualContexts EXCEPT
               ![adminChecks[i]].isPortalAdministrator =
                   IF outcome = "admin" THEN "true" ELSE "false"]
  /\ UNCHANGED <<req, nextArgs, assignments, lastAssignment, adminCalls>>
  /\ UNCHANGED outsideReq

InitRequest ==
  /\ RequestIdle
  /\ WebIdle
  /\ RouteIdle
  /\ JobIdle
  /\ AggIdle
  /\ CacheIdle
  /\ KeyIdle

NextRequest ==
  \/ webContextMiddleware
  \/ apiContextMiddleware
  \/ \E ctx \in 1..Len(individualContexts),
        value \in CorporateIdentities \cup {Null} :
       SetCorporateIdentity(ctx, value)
  \/ \E ctx \in 1..Len(individualContexts), value \in CorporateLinks \cup {Null} :
       SetLink(ctx, value)
  \/ \E ctx \in 1..Len(individualContexts), hasSessionIdentity \in BOOLEAN :
       isPortalAdministrator(ctx, hasSessionIdentity)
  \/ \E i \in 1..MaxAssignments, outcome \in {"admin", "notAdmin", "rejected"} :
       AdministratorCheckSettles(i, outcome)

SpecRequest == InitRequest /\ [][NextRequest]_vars

\* The request carries both kinds of context.
MixedContexts(r) ==
  r.individualContext # NoContext /\ r.apiContext # NoContext

\* The latest middleware ran on a request for which it would have created
\* the second kind of context.
SecondContextAttempt ==
  /\ Len(nextArgs') = Len(nextArgs) + 1
  /\ LET ran == nextArgs'[Len(nextArgs')].middleware
     IN  \/ ran = "web" /\ req.apiContext # NoContext
         \/ ran = "api" /\ req.individualContext # NoContext

\* C29: a request never carries both an individual context and an API
\* context, and a middleware run on a request that has the other kind of
\* context passes the error to next and leaves the contexts as they were.
ContextsNeverMixed ==
  [][/\ ~MixedContexts(req)
     /\ ~MixedContexts(req')
     /\ SecondContextAttempt =>
          /\ nextArgs'[Len(nextArgs')].arg = MixedContextsError
          /\ req' = req
          /\ individualContexts' = individualContexts]_vars

\* The API middleware ran after the web middleware and was refused.
ContextsNeverMixedWitness ==
  /\ Len(nextArgs) >= 2
  /\ nextArgs[1] = [middleware |-> "web", arg |-> NoArgument]
  /\ nextArgs[2] = [middleware |-> "api", arg |-> MixedContextsError]
  /\ req = [individualContext |-> 1, apiContext |-> NoContext]
  /\ Len(individualContexts) = 1

SetOnceProperties == {"corporateIdentity", "link"}

\* An assignment to the property of the context happens in this step.
AssignedNow(ctx, property) ==
  /\ assignments' = assignments + 1
  /\ lastAssignment'.ctx = ctx
  /\ lastAssignment'.property = property

\* C30: a corporate identity or link that holds a value keeps it, every
\* assignment made while it holds one throws, and the held value changes
\* only from empty to set.
SetOnceIdentity ==
  [][\A ctx \in 1..Len(individualContexts), property \in SetOnceProperties :
       LET held == individualContexts[ctx][property]
           after == individualContexts'[ctx][property]
       IN  /\ held # Null =>
                /\ after = held
                /\ AssignedNow(ctx, property) => lastAssignment'.threw
           /\ after # held => held = Null /\ after # Null]_vars

\* An identity was set and a later assignment of another identity threw and
\* left it as it was, and the same for the link of the same context.
SetOnceIdentityWitness ==
  /\ assignments = 3
  /\ Len(individualContexts) >= 1
  /\ individualContexts[1].corporateIdentity = "identity1"
  /\ individualContexts[1].link = "link1"
  /\ lastAssignment = [ctx |-> 1, property |-> "corporateIdentity",
                       value |-> "identity2", threw |-> TRUE]


\* ------------------------------------------------------------------------
\* The alerts of a session
\* ------------------------------------------------------------------------
\* The number of saveUserAlert calls.
MaxSaves == 3

\* The number of render calls.
MaxRenders == 3

\* An argument that was not passed.
NotPassed == "undefined"

\* The arguments of saveUserAlert: the message is a string or, by mistake,
\* an object; title and context may be left out.
AlertArguments ==
  { [message |-> "string", title |-> NotPassed, context |-> NotPassed],
    [message |-> "string", title |-> "Heads up", context |-> "warning"],
    [message |-> "string", title |-> "", context |-> Null],
    [message |-> "object", title |-> NotPassed, context |-> NotPassed] }

\* a || b for an argument: the default stands in for every falsy value.
OrDefault(value, default) ==
  IF value \in {NotPassed, Null, ""} THEN default ELSE value

\* The alert saveUserAlert builds; the message is told apart by the number
\* of the call that saved it.
NewAlert(args, call) ==
  [message |-> call,
   title |-> OrDefault(args.title, "FYI"),
   context |-> OrDefault(args.context, "success")]

\* Variant: an alert saved into a session that has alerts replaces them.
SessionAfterSave_Replace(sess, alert) ==
  [sess EXCEPT !.hasAlerts = TRUE, !.alerts = <<alert>>]

\* The session after an alert is saved: pushed onto alerts when it has a
\* non-empty alerts array, else alerts becomes an array of the one alert.
SessionAfterSave(sess, alert) ==
  IF sess.hasAlerts /\ Len(sess.alerts) > 0
  THEN [sess EXCEPT !.alerts = Append(sess.alerts, alert)]
  ELSE [sess EXCEPT !.hasAlerts = TRUE, !.alerts = <<alert>>]

\* saveUserAlert(message, title, context): throws for a message that is not
\* a string; stores the alert when the request has a session.
saveUserAlert(args) ==
  /\ saveCalls < MaxSaves
  /\ saveCalls' = saveCalls + 1
  /\ IF args.message # "string" \/ ~session.present
     THEN UNCHANGED <<session, saved>>
     ELSE LET alert == NewAlert(args, saveCalls + 1)
          IN  /\ session' = SessionAfterSave(session, alert)
              /\ saved' = Append(saved, alert)
  /\ UNCHANGED renders
  /\ UNCHANGED outsideWeb

\* What a render call finds and is given: the context's request and
\* response, the application's runtimeConfig, and the state and
\* optionalObject of its options.
RenderArguments ==
  { [request |-> TRUE, response |-> TRUE, config |-> TRUE,
     state |-> FALSE, optionalObject |-> FALSE],
    [request |-> TRUE, response |-> TRUE, config |-> TRUE,
     state |-> TRUE, optionalObject |-> FALSE],
    [request |-> FALSE, response |-> TRUE, config |-> TRUE,
     state |-> FALSE, optionalObject |-> FALSE],
    [request |-> TRUE, response |-> FALSE, config |-> TRUE,
     state |-> FALSE, optionalObject |-> FALSE],
    [request |-> TRUE, response |-> TRUE, config |-> FALSE,
     state |-> FALSE, optionalObject |-> FALSE],
    [request |-> TRUE, response |-> TRUE, config |-> TRUE,
     state |-> TRUE, optionalObject |-> TRUE] }

\* The error render throws before it builds the view's object, if any.
RenderThrows(args) ==
  IF ~args.request THEN "No request available"
  ELSE IF ~args.response THEN "No request available"
  ELSE IF args.state /\ args.optionalObject
       THEN "Both state and optionalObject cannot be provided to a view render method"
  ELSE IF ~args.config THEN "runtimeConfig is missing"
  ELSE "none"

\* The alerts handed to the view: the session's alerts, each numbered from 1.
NumberedAlerts(alerts) ==
  [i \in 1..Len(alerts) |->
     [message |-> alerts[i].message, title |-> alerts[i].title,
      context |-> alerts[i].context, number |-> i]]

\* The session holds alerts to show.
HasAlertsToShow(sess) == sess.present /\ sess.hasAlerts /\ Len(sess.alerts) > 0

\* Variant: the alerts stay in the session after they were shown.
SessionAfterRender_Keep(sess) == sess

\* The session after its alerts went to a view: alerts is a new empty array.
SessionAfterRender(sess) ==
  IF HasAlertsToShow(sess) THEN [sess EXCEPT !.alerts = <<>>] ELSE sess

\* render(options).
render(args) ==
  /\ Len(renders) < MaxRenders
  /\ LET error == RenderThrows(args)
     IN  IF error # "none"
         THEN /\ renders' = Append(renders,
                     [threw |-> error, hasAlerts |-> FALSE, alerts |-> <<>>,
                      savedBefore |-> Len(saved)])
              /\ UNCHANGED session
         ELSE /\ renders' = Append(renders,
                     [threw |-> "none",
                      hasAlerts |-> HasAlertsToShow(session),
                      alerts |-> IF HasAlertsToShow(session)
                                 THEN NumberedAlerts(session.alerts) ELSE <<>>,
                      savedBefore |-> Len(saved)])
              /\ session' = SessionAfterRender(session)
  /\ UNCHANGED <<saveCalls, saved>>
  /\ UNCHANGED outsideWeb

InitWeb ==
  /\ session \in { [present |-> TRUE, hasAlerts |-> FALSE, alerts |-> <<>>],
                   [present |-> TRUE, hasAlerts |-> TRUE, alerts |-> <<>>],
                   [present |-> FALSE, hasAlerts |-> FALSE, alerts |-> <<>>] }
  /\ saveCalls = 0
  /\ saved = <<>>
  /\ renders = <<>>
  /\ RouteIdle
  /\ JobIdle
  /\ RequestIdle
  /\ AggIdle
  /\ CacheIdle
  /\ KeyIdle

NextWeb ==
  \/ \E args \in AlertArguments : saveUserAlert(args)
  \/ \E args \in RenderArguments : render(args)

SpecWeb == InitWeb /\ [][NextWeb]_vars

\* The number of alerts saved before the latest render that reached the view
\* among the first k renders.
RECURSIVE ShownBefore(_)
ShownBefore(k) ==
  IF k = 0 THEN 0
  ELSE IF renders[k].threw = "none" THEN renders[k].savedBefore
  ELSE ShownBefore(k - 1)

\* The saved alerts from..to, numbered from 1.
SavedSlice(from, to) ==
  NumberedAlerts(SubSeq(saved, from, to))

\* C31: with a session, a render that reaches the view shows exactly the
\* alerts saved since the previous such render, in the order saved and
\* numbered from 1; a render that throws shows none; and the session holds
\* exactly the alerts saved since the latest render that reached the view.
AlertsDeliveredOnce ==
  session.present =>
    /\ \A k \in 1..Len(renders) :
         IF renders[k].threw = "none"
         THEN renders[k].alerts =
                SavedSlice(ShownBefore(k - 1) + 1, renders[k].savedBefore)
         ELSE renders[k].alerts = <<>>
    /\ session.alerts =
         SubSeq(saved, ShownBefore(Len(renders)) + 1, Len(saved))

\* An alert was saved and shown by the next render, a render then threw,
\* another alert was saved and the last render showed only that one.
AlertsDeliveredOnceWitness ==
  /\ session.present
  /\ Len(saved) = 2
  /\ Len(renders) = 3
  /\ renders[1].threw = "none" /\ Len(renders[1].alerts) = 1
  /\ renders[1].alerts[1].message = saved[1].message
  /\ renders[2].threw # "none" /\ renders[2].savedBefore = 2
  /\ renders[3].threw = "none" /\ Len(renders[3].alerts) = 1
  /\ renders[3].alerts[1].message = saved[2].message
  /\ renders[3].alerts[1].number = 1
  /\ session.alerts = <<>>


\* ------------------------------------------------------------------------
\* POST /:repoName: making a repository public
\* ------------------------------------------------------------------------
\* The number of POST /:repoName requests.
MaxPosts == 2

MakeRepoPublic == "make-repo-public"

\* The repoPermissions of a request.
RepoPermissions ==
  { EmptyObject,
    Put(EmptyObject, "admin", Bool(FALSE)),
    Put(EmptyObject, "admin", Bool(TRUE)) }

\* The bodies of a request: without the field, with an empty field, with
\* the field set.
PostBodies ==
  { EmptyObject,
    Put(EmptyObject, MakeRepoPublic, Str(<<>>)),
    Put(EmptyObject, MakeRepoPublic, Str(<<49>>)) }

NotAdminError == "You do not have administrative permission on this repository"
UnsupportedError == "Unsupported operation"
EditError == "editPublicPrivate rejected"
DetailsError == "getDetails failed"

\* The options of the details refresh.
ForcedRefresh == [backgroundRefresh |-> FALSE, maxAgeSeconds |-> 0 - 60]

\* Variant: every caller may make the repository public.
AdminRefused_Never(repoPermissions) == FALSE

\* !repoPermissions.admin === true.
AdminRefused(repoPermissions) == ~Truthy(Get(repoPermissions, "admin"))

\* !takePublic.
OperationRefused(reqBody) == ~Truthy(Get(reqBody, MakeRepoPublic))

\* The handler's synchronous part: it refuses the request with an error to
\* next, or calls editPublicPrivate({private: false}).
PostRepo(repoPermissions, reqBody) ==
  /\ post.pc \in {"idle", "done"}
  /\ posts < MaxPosts
  /\ posts' = posts + 1
  /\ LET request == [NoPost EXCEPT !.permissions = repoPermissions,
                                   !.body = reqBody,
                                   !.privateBefore = repo.private,
                                   !.savedBefore = Len(saved)]
     IN  IF AdminRefused(repoPermissions)
         THEN /\ post' = [request EXCEPT !.pc = "done",
                                         !.nextErrors = <<NotAdminError>>]
              /\ UNCHANGED repo
         ELSE IF OperationRefused(reqBody)
         THEN /\ post' = [request EXCEPT !.pc = "done",
                                         !.nextErrors = <<UnsupportedError>>]
              /\ UNCHANGED repo
         ELSE /\ post' = [request EXCEPT !.pc = "editing", !.edited = TRUE]
              /\ repo' = [repo EXCEPT
                            !.edits = Append(repo.edits, [private |-> FALSE])]
  /\ UNCHANGED webVars
  /\ UNCHANGED outsideRoute

\* The promise of editPublicPrivate settles. Resolved: the repository is
\* public, the alert is saved and getDetails is called with the forced
\* refresh. Rejected: the error goes to next.
EditSettles(ok) ==
  /\ post.pc = "editing"
  /\ IF ok
     THEN /\ repo' = [repo EXCEPT !.private = FALSE,
                                  !.refreshes = Append(repo.refreshes, ForcedRefresh)]
          /\ post' = [post EXCEPT !.pc = "refreshing"]
          /\ saveCalls' = saveCalls + 1
          /\ IF session.present
             THEN LET alert == NewAlert([message |-> "string",
                                         title |-> "Repository publish",
                                         context |-> "success"], saveCalls + 1)
                  IN  /\ session' = SessionAfterSave(session, alert)
                      /\ saved' = Append(saved, alert)
             ELSE UNCHANGED <<session, saved>>
     ELSE /\ post' = [post EXCEPT !.pc = "done", !.nextErrors = <<EditError>>]
          /\ UNCHANGED <<repo, session, saved, saveCalls>>
  /\ UNCHANGED <<posts, renders>>
  /\ UNCHANGED outsideRoute

\* The callback of getDetails: an error goes to next, otherwise the
\* redirect is sent.
DetailsCallback(ok) ==
  /\ post.pc = "refreshing"
  /\ post' = IF ok
             THEN [post EXCEPT !.pc = "done", !.refreshed = "ok",
                               !.redirects = post.redirects + 1]
             ELSE [post EXCEPT !.pc = "done", !.refreshed = "error",
                               !.nextErrors = Append(post.nextErrors, DetailsError)]
  /\ UNCHANGED <<repo, posts>>
  /\ UNCHANGED webVars
  /\ UNCHANGED outsideRoute

InitRoute ==
  /\ repo \in { [private |-> p, edits |-> <<>>, refreshes |-> <<>>] :
                p \in BOOLEAN }
  /\ post = NoPost
  /\ posts = 0
  /\ session \in { [present |-> TRUE, hasAlerts |-> FALSE, alerts |-> <<>>],
                   [present |-> TRUE, hasAlerts |-> TRUE, alerts |-> <<>>],
                   [present |-> FALSE, hasAlerts |-> FALSE, alerts |-> <<>>] }
  /\ saveCalls = 0
  /\ saved = <<>>
  /\ renders = <<>>
  /\ JobIdle
  /\ RequestIdle
  /\ AggIdle
  /\ CacheIdle
  /\ KeyIdle

NextRoute ==
  \/ \E repoPermissions \in RepoPermissions, reqBody \in PostBodies :
       PostRepo(repoPermissions, reqBody)
  \/ \E ok \in BOOLEAN : EditSettles(ok)
  \/ \E ok \in BOOLEAN : DetailsCallback(ok)

SpecRoute == InitRoute /\ [][NextRoute]_vars

\* The request may make the repository public as the claim words it: admin
\* is truthy and the body has the make-repo-public field.
MayMakePublic(request) ==
  /\ Truthy(Get(request.permissions, "admin"))
  /\ Has(request.body, MakeRepoPublic)

\* C32: editPublicPrivate({private: false}) is called only for a request
\* whose repoPermissions.admin is truthy and whose body has make-repo-public;
\* any other request gets an error passed to next and changes neither the
\* repository nor the session. The redirect is sent only after the forced
\* details refresh completed without error, never more than one of redirect
\* and next(error) happens, and a handled request has had exactly one.
MakePublicAuthorization ==
  /\ Len(repo.edits) <= posts
  /\ \A i \in 1..Len(repo.edits) : repo.edits[i] = [private |-> FALSE]
  /\ post.pc # "idle" =>
       /\ post.edited => MayMakePublic(post)
       /\ ~MayMakePublic(post) =>
            /\ post.pc = "done"
            /\ Len(post.nextErrors) = 1
            /\ post.redirects = 0
            /\ repo.private = post.privateBefore
            /\ Len(saved) = post.savedBefore
       /\ post.redirects = 1 =>
            /\ post.edited
            /\ post.refreshed = "ok"
            /\ Len(repo.refreshes) >= 1
            /\ repo.refreshes[Len(repo.refreshes)] = ForcedRefresh
            /\ ~repo.private
       /\ post.redirects + Len(post.nextErrors) <= 1
       /\ post.pc = "done" => post.redirects + Len(post.nextErrors) = 1

\* A request without admin permission was refused with the repository still
\* private, and the next request, from an administrator, made it public
\* and was redirected after the refresh.
MakePublicAuthorizationWitness ==
  /\ posts = 2
  /\ post.pc = "done"
  /\ post.privateBefore
  /\ Len(repo.edits) = 1
  /\ post.redirects = 1
  /\ post.nextErrors = <<>>
  /\ ~repo.private
  /\ repo.refreshes = <<ForcedRefresh>>


\* ------------------------------------------------------------------------
\* The permissions job
\* ------------------------------------------------------------------------
\* The number of repositories of each organization.
MaxRepos == 2

\* operations.organizations, in order.
JobOrganizations == <<"orgA", "orgB">>

\* The repositories getRepositories returns for an organization.
RepositoriesOf(org) == [r \in 1..MaxRepos |-> <<org, r>>]

\* Every repository of every organization, in the order of the loops.
RECURSIVE AllRepositoriesFrom(_)
AllRepositoriesFrom(org) ==
  IF org > Len(JobOrganizations) THEN <<>>
  ELSE RepositoriesOf(org) \o AllRepositoriesFrom(org + 1)

PermissionLevels == {"pull", "push", "admin"}

\* The team permissions getTeamPermissions can return for a repository.
PermissionListings == [SpecialTeams -> PermissionLevels \cup {NoPermission}]

\* The levels processOrgSpecialTeams can require of the special teams.
RequiredLevels == [SpecialTeams -> PermissionLevels]

\* isAtLeastPermissionLevel throws for a value that is none of the levels.
PermissionUnderstood(value) == value \in {"admin", "push", "pull"}

\* isAtLeastPermissionLevel(value, expected) for a value it understands.
isAtLeastPermissionLevel(value, expected) ==
  IF value = expected THEN TRUE
  ELSE IF value = "admin" THEN TRUE
  ELSE IF expected = "admin" THEN FALSE
  ELSE IF expected = "write" /\ value = expected THEN TRUE
  ELSE IF expected = "read" THEN TRUE
  ELSE FALSE

\* teamsToSet: the special teams that are absent from the repository or
\* whose permission is not at least the required one.
TeamsToSet(listing, required) ==
  { t \in SpecialTeams :
      \/ listing[t] = NoPermission
      \/ ~isAtLeastPermissionLevel(listing[t], required[t]) }

\* Array.from(teamsToSet.values()): in the order of specialTeamIds.
SetArray(toSet) == SelectSeq(SpecialTeamIds, LAMBDA t : t \in toSet)

\* The body of the repository loop up to its await: the job has reached the
\* repository and getTeamPermissions is called; nothing is known of the
\* repository's teams yet and no setTeamPermission call was made on it.
ReachRepository(r, z) ==
  [r EXCEPT !.pc = "reading", !.repo = z,
            !.read = [t \in SpecialTeams |-> NoPermission],
            !.teams = [t \in SpecialTeams |-> NoPermission],
            !.toSet = {}, !.pending = <<>>, !.attempted = {}]

\* The loops go on after the current repository, in the same turn, up to the
\* next await: the next repository of the organization is reached, else
\* getRepositories of the next organization is called, else the job ends.
AfterRepository(r) ==
  IF r.repo < MaxRepos THEN ReachRepository(r, r.repo + 1)
  ELSE IF r.org < Len(JobOrganizations)
       THEN [r EXCEPT !.pc = "org", !.org = r.org + 1, !.repo = 0]
  ELSE [r EXCEPT !.pc = "done"]

\* The repositories reached so far, once the turn has left the job at next:
\* a turn that ends awaiting getTeamPermissions has reached a repository.
VisitedAfter(next) ==
  IF next.pc = "reading" THEN Append(visited, <<next.org, next.repo>>)
  ELSE visited

\* await organization.getRepositories() settles: a rejection rejects the
\* job; otherwise the first repository is reached.
GetRepositories(ok) ==
  /\ run.pc = "org"
  /\ run' = IF ok THEN ReachRepository(run, 1)
            ELSE [run EXCEPT !.pc = "rejected"]
  /\ visited' = VisitedAfter(run')
  /\ UNCHANGED outsideJob

\* await repo.getTeamPermissions(cacheOptions) settles: when the read fails
\* the function returns; otherwise the teams to set are worked out and
\* setTeamPermission is called for the first of them; without a team to set
\* the loops go on.
ReadPermissions(outcome, listing) ==
  /\ run.pc = "reading"
  /\ IF outcome # "ok"
     THEN run' = [run EXCEPT !.pc = "returned"]
     ELSE IF \E t \in SpecialTeams :
               listing[t] # NoPermission /\ ~PermissionUnderstood(listing[t])
     THEN run' = [run EXCEPT !.pc = "rejected"]
     ELSE LET toSet == TeamsToSet(listing, run.required)
              setArray == SetArray(toSet)
              next == [run EXCEPT !.read = listing, !.teams = listing,
                                  !.toSet = toSet,
                                  !.pending = setArray,
                                  !.attempted = {}]
          IN  run' = IF toSet = {} THEN AfterRepository(next)
                     ELSE [next EXCEPT !.pc = "set",
                                       !.attempted = {Head(setArray)}]
  /\ visited' = VisitedAfter(run')
  /\ UNCHANGED outsideJob

\* await repo.setTeamPermission(teamId, newPermission) settles: a failure is
\* logged; setTeamPermission is called for the next team to set, and after
\* the last one the loops go on.
SetTeamPermission(ok) ==
  /\ run.pc = "set"
  /\ LET teamId == Head(run.pending)
         newPermission == run.required[teamId]
         rest == Tail(run.pending)
         next == [run EXCEPT
                    !.teams = IF ok THEN [run.teams EXCEPT ![teamId] = newPermission]
                              ELSE run.teams,
                    !.pending = rest]
     IN  run' = IF rest = <<>> THEN AfterRepository(next)
                ELSE [next EXCEPT !.attempted = run.attempted \cup {Head(rest)}]
  /\ visited' = VisitedAfter(run')
  /\ UNCHANGED outsideJob

InitJob ==
  /\ \E required \in RequiredLevels :
       run = [pc |-> "org", org |-> 1, repo |-> 0,
              required |-> required,
              read |-> [t \in SpecialTeams |-> NoPermission],
              teams |-> [t \in SpecialTeams |-> NoPermission],
              toSet |-> {}, pending |-> <<>>, attempted |-> {}]
  /\ visited = <<>>
  /\ RouteIdle
  /\ WebIdle
  /\ RequestIdle
  /\ AggIdle
  /\ CacheIdle
  /\ KeyIdle

NextJob ==
  \/ \E ok \in BOOLEAN : GetRepositories(ok)
  \/ \E outcome \in {"ok", "gone", "error"}, listing \in PermissionListings :
       ReadPermissions(outcome, listing)
  \/ \E ok \in BOOLEAN : SetTeamPermission(ok)

SpecJob == InitJob /\ [][NextJob]_vars

\* The rank of a permission level in pull < push < admin; a team without a
\* permission ranks below all.
Rank(level) ==
  CASE level = "admin" -> 3
    [] level = "push" -> 2
    [] level = "pull" -> 1
    [] OTHER -> 0

\* C33 as stated: for the level a special team was read with and the level
\* required of it, isAtLeastPermissionLevel is true exactly when the level
\* ranks at or above the required one in pull < push < admin; the job sets a
\* team's permission only when the team is absent or strictly below the
\* required level, and no team's level on the repository is below the level
\* it was read with.
PermissionOrdering ==
  \A t \in SpecialTeams :
    /\ run.read[t] # NoPermission =>
         isAtLeastPermissionLevel(run.read[t], run.required[t]) =
           (Rank(run.read[t]) >= Rank(run.required[t]))
    /\ t \in run.toSet => Rank(run.read[t]) < Rank(run.required[t])
    /\ Rank(run.teams[t]) >= Rank(run.read[t])

\* C34 as stated: when permissionsRun has ended without rejecting, it has
\* reached every repository of every organization, in order; and every team
\* to set on a repository has had its setTeamPermission call once the
\* repository is left, whether or not an earlier call failed.
ReconciliationCoverage ==
  /\ run.pc \in {"done", "returned"} => visited = AllRepositoriesFrom(1)
  /\ run.pc # "set" => run.attempted = run.toSet

====
